---------------------------- MODULE Spec2Model ----------------------------
(***************************************************************************)
(* Model of the SparkDEX transaction sequencer of flare-dapp               *)
(* (src/ai/functions/sparkdex.py): swap_tokens, add_liquidity,             *)
(* create_pool, the helper _sign_and_send_transaction, the quote probe     *)
(* get_token_price, and the slippage arithmetic, together with the part    *)
(* of the chain they observe (account nonce, pending and mined             *)
(* transactions, allowances, the pool of the factory).                     *)
(*                                                                         *)
(* Every operation runs in a request thread of the web application         *)
(* (src/main.py:392, app.run); Procs are the requests.  One signer (the    *)
(* PRIVATE_KEY account) is shared by all of them, as in the source.  A     *)
(* step of a request is one action; a step holds at most one read of the   *)
(* account nonce or one transaction submission.                            *)
(***************************************************************************)
EXTENDS Integers, Sequences, FiniteSets, TLC

(* ------------------------------ bounds -------------------------------- *)
\* largest base-unit amount a caller asks to spend
MaxAmount == 1

Procs == {1, 2}
Amounts == 0..MaxAmount

\* allowance(owner, spender) of the three (token, spender) pairs in play:
\* input token -> swap router, token0 / token1 -> position manager
AllowKeys == {"router", "npm0", "npm1"}
NpmKey(i) == IF i = 1 THEN "npm0" ELSE "npm1"

VARIABLES
    pc,          \* [Procs -> label]: where each request is in its operation
    hp,          \* [Procs -> {"none","send","wait"}]: position inside _sign_and_send_transaction
    op,          \* [Procs -> record]: the operation of the request and its arguments
    loc,         \* [Procs -> record]: local variables of the operation
    result,      \* [Procs -> record]: the dictionary the operation returned
    txs,         \* [Procs -> Seq(tx)]: the transactions each operation built, in order
    chainNonce,  \* web3.eth.get_transaction_count(from_address): mined transactions of the signer
    allowance,   \* [AllowKeys -> Nat]: on-chain allowances of the signer
    pool,        \* factory/pool state of the token pair: 0 none, 1 created, 2 initialized
    quoter,      \* the quoter contract: the fee tiers it answers and the amount it quotes for each
    connected,   \* EVMConnection.connected of the global connection (src/evm/connection.py)
    clock,       \* time.time() of the host minus the timestamp of the latest block, in seconds
    slot0,       \* the pool's current tick and the factory's tick spacing of its fee tier
    decimals,    \* decimals() of the tokens
    abis,        \* the ABI store: the files of ABI_DIR, CONTRACT_ABI_MAPPING, _abi_cache
    onion,       \* web3.middleware_onion: how many times ExtraDataToPOAMiddleware is registered
    connects     \* how many EVMConnection objects were made, each running connect() once
                 \* and the _get_contract / load_abi calls made so far

procVars == <<pc, hp, op, loc, result>>
\* what the operations only read
envVars == <<quoter, connected, clock, slot0, decimals, abis, onion,
            connects>>
chainVars == <<txs, chainNonce, allowance, pool, envVars>>
vars == <<pc, hp, op, loc, result, txs, chainNonce, allowance, pool, envVars>>

\* amounts quoted and derived from quotes are Python ints (see below); <<>> is 0.
\* probed lists the fee tiers the operation called the quoter with, in order.
\* did names what the operation did before its first chain step.
\* pools lists what factory.getPool answered to the operation, in order.
\* logs is <<>> until the receipt of the mint transaction is fetched and
\* <<receipt.logs>> from then on;
\* tokenId is the local token_id: <<>> is None, <<n>> is the integer n.
\* sqrtPriceX96 is <<>> until slot0() returned and <<slot0[0]>> from then on;
\* reads is <<>> or the pair of what the calls on the two tokens of the pool
\* return; symbols, decimals and price are <<>> or the token symbols, the
\* token decimals and <<price>> of the dictionary returned.
Unread == <<-1>>
NoLoc == [allow |-> <<Unread, Unread>>, cur |-> 0, tok |-> 1, probed |-> <<>>,
          feeTier |-> 0, amountOut |-> <<>>, minOut |-> <<>>, did |-> {},
          ticks |-> <<>>, pools |-> <<>>, logs |-> <<>>, tokenId |-> <<>>,
          sqrtPriceX96 |-> <<>>, reads |-> <<>>, symbols |-> <<>>,
          decimals |-> <<>>, price |-> <<>>, registered |-> 0,
          signed |-> {}, sent |-> <<>>, mapped |-> <<>>,
          quoteParams |-> <<>>, swapParams |-> <<>>]
NoResult == [status |-> "none", error |-> "", hashes |-> {}]

(* ------------------- Python's numbers (int, float) -------------------- *)
\* A Python int is unbounded.  Naturals are kept as sequences of base-10^4
\* digits, least significant first, without leading zeros: <<>> is 0 and
\* <<995, 5474, 1992, 9007>> is 9007199254740995.
Base == 10 ^ 4

\* The operations on the digits split the digit range in halves, so that the
\* depth of the recursion is the logarithm of the length.
BigNorm(a) ==
    LET nz == {i \in 1..Len(a) : a[i] # 0} IN
    IF nz = {} THEN <<>>
    ELSE SubSeq(a, 1, CHOOSE i \in nz : \A j \in nz : j <= i)

RECURSIVE BigFromInt(_)
BigFromInt(n) == IF n = 0 THEN <<>> ELSE <<n % Base>> \o BigFromInt(n \div Base)

RECURSIVE BigToInt(_)
BigToInt(a) == IF a = <<>> THEN 0 ELSE a[1] + Base * BigToInt(Tail(a))

Limb(a, i) == IF i <= Len(a) THEN a[i] ELSE 0

\* digits lo..hi of a + b + carry, and the carry out of digit hi
RECURSIVE AddFrom(_, _, _, _, _)
AddFrom(a, b, lo, hi, carry) ==
    IF lo = hi
        THEN LET s == Limb(a, lo) + Limb(b, lo) + carry
             IN  [d |-> <<s % Base>>, c |-> s \div Base]
        ELSE LET mid == (lo + hi) \div 2
                 low == AddFrom(a, b, lo, mid, carry)
                 high == AddFrom(a, b, mid + 1, hi, low.c)
             IN  [d |-> low.d \o high.d, c |-> high.c]

BigAdd(a, b) ==
    LET n == IF Len(a) < Len(b) THEN Len(b) ELSE Len(a) IN
    IF n = 0 THEN <<>>
    ELSE LET s == AddFrom(a, b, 1, n, 0)
         IN  IF s.c = 0 THEN s.d ELSE s.d \o <<s.c>>

\* digits lo..hi of a - b - borrow, and the borrow out of digit hi
RECURSIVE SubFrom(_, _, _, _, _)
SubFrom(a, b, lo, hi, borrow) ==
    IF lo = hi
        THEN LET d == a[lo] - Limb(b, lo) - borrow
             IN  [d |-> <<(d + Base) % Base>>, c |-> IF d < 0 THEN 1 ELSE 0]
        ELSE LET mid == (lo + hi) \div 2
                 low == SubFrom(a, b, lo, mid, borrow)
                 high == SubFrom(a, b, mid + 1, hi, low.c)
             IN  [d |-> low.d \o high.d, c |-> high.c]

\* a - b for a >= b
BigSub(a, b) == IF a = <<>> THEN <<>> ELSE BigNorm(SubFrom(a, b, 1, Len(a), 0).d)

\* digits lo..hi of a * c + carry, and the carry out of digit hi
RECURSIVE MulSmallFrom(_, _, _, _, _)
MulSmallFrom(a, c, lo, hi, carry) ==
    IF lo = hi
        THEN LET s == a[lo] * c + carry
             IN  [d |-> <<s % Base>>, c |-> s \div Base]
        ELSE LET mid == (lo + hi) \div 2
                 low == MulSmallFrom(a, c, lo, mid, carry)
                 high == MulSmallFrom(a, c, mid + 1, hi, low.c)
             IN  [d |-> low.d \o high.d, c |-> high.c]

\* a * c for 0 <= c <= Base
BigMulSmall(a, c) ==
    IF c = 0 \/ a = <<>> THEN <<>>
    ELSE LET s == MulSmallFrom(a, c, 1, Len(a), 0)
         IN  IF s.c = 0 THEN s.d ELSE s.d \o <<s.c>>

\* a * Base^n
ShiftLimbs(a, n) == IF a = <<>> THEN a ELSE [i \in 1..n |-> 0] \o a

\* a times the digits lo..hi of b
RECURSIVE MulFrom(_, _, _, _)
MulFrom(a, b, lo, hi) ==
    IF lo = hi THEN BigMulSmall(a, b[lo])
    ELSE LET mid == (lo + hi) \div 2
         IN  BigAdd(MulFrom(a, b, lo, mid),
                    ShiftLimbs(MulFrom(a, b, mid + 1, hi), mid + 1 - lo))

BigMul(a, b) ==
    IF a = <<>> \/ b = <<>> THEN <<>> ELSE MulFrom(a, b, 1, Len(b))

\* long division of (r, digits hi..lo of a) by d: the digits of the
\* quotient, most significant first, and the remainder
RECURSIVE DivSmallFrom(_, _, _, _, _)
DivSmallFrom(a, d, lo, hi, r) ==
    IF lo = hi
        THEN LET cur == r * Base + a[lo]
             IN  [q |-> <<cur \div d>>, r |-> cur % d]
        ELSE LET mid == (lo + hi) \div 2
                 high == DivSmallFrom(a, d, mid + 1, hi, r)
                 low == DivSmallFrom(a, d, lo, mid, high.r)
             IN  [q |-> high.q \o low.q, r |-> low.r]

\* quotient and remainder of a by d, 0 < d <= Base
BigDivSmall(a, d) ==
    IF a = <<>> THEN [q |-> <<>>, r |-> 0]
    ELSE LET x == DivSmallFrom(a, d, 1, Len(a), 0)
             n == Len(a)
         IN  [q |-> BigNorm([i \in 1..n |-> x.q[n + 1 - i]]), r |-> x.r]

\* a < b for numbers without leading zeros
BigLess(a, b) ==
    IF Len(a) # Len(b) THEN Len(a) < Len(b)
    ELSE LET diff == {i \in 1..Len(a) : a[i] # b[i]} IN
         /\ diff # {}
         /\ LET i == CHOOSE k \in diff : \A j \in diff : j <= k
            IN  a[i] < b[i]

\* 2^k; one base-10^4 digit holds 2^13
RECURSIVE BigPow2(_)
BigPow2(k) ==
    IF k <= 13 THEN <<2 ^ k>>
    ELSE BigMul(BigPow2(k - k \div 2), BigPow2(k \div 2))

\* floor(a / 2^k)
RECURSIVE BigShiftRight(_, _)
BigShiftRight(a, k) ==
    IF k = 0 \/ a = <<>> THEN a
    ELSE IF k > 13
        THEN BigShiftRight(BigShiftRight(a, k - k \div 2), k \div 2)
    ELSE BigDivSmall(a, 2 ^ k).q

\* A Python float is an IEEE 754 double.  The non-negative finite doubles of
\* the model are records [m, e] standing for m * 2^e with m < 2^53.
Two52 == BigPow2(52)
Two53 == BigPow2(53)
Two54 == BigPow2(54)
Two62 == BigPow2(62)
Two66 == BigPow2(66)
Two80 == BigPow2(80)

\* The double nearest to n * 2^e (ties to even); sticky says that n is the
\* floor of a value with a non-zero fraction.  n >= 2^53 whenever sticky.
\* Bits below the 54 leading ones only matter by being zero or not, so they
\* are dropped: all but the leading 54 to 80 of them at once while n >= 2^80
\* (n >= 2^(13 * (Len(n) - 1))), then twelve at a time while n >= 2^66.
RECURSIVE RoundDouble(_, _, _)
RoundDouble(n, e, sticky) ==
    IF BigLess(n, Two53) THEN [m |-> n, e |-> e]
    ELSE IF ~BigLess(n, Two80)
        THEN LET s == 13 * (Len(n) - 1) - 54
                 q == BigShiftRight(n, s)
             IN  RoundDouble(q, e + s, sticky \/ BigMul(q, BigPow2(s)) # n)
    ELSE IF ~BigLess(n, Two66)
        THEN LET c == BigDivSmall(n, 4096)
             IN  RoundDouble(c.q, e + 12, sticky \/ c.r # 0)
    ELSE LET h == BigDivSmall(n, 2) IN
         IF ~BigLess(n, Two54)
            THEN RoundDouble(h.q, e + 1, sticky \/ h.r = 1)
            ELSE LET up == h.r = 1 /\ (sticky \/ h.q[1] % 2 = 1)
                     m == IF up THEN BigAdd(h.q, <<1>>) ELSE h.q
                 IN  IF m = Two53 THEN [m |-> Two52, e |-> e + 2]
                                  ELSE [m |-> m, e |-> e + 1]

\* float(n) of an int n, as int * float converts its left operand
DoubleFromInt(n) == RoundDouble(n, 0, FALSE)

\* x / 100
DoubleDiv100(x) ==
    IF x.m = <<>> THEN x
    ELSE LET d == BigDivSmall(BigMul(x.m, Two62), 100)
         IN  RoundDouble(d.q, x.e - 62, d.r # 0)

\* 1 - x for 0 <= x <= 1
DoubleOneMinus(x) ==
    IF x.m = <<>> THEN [m |-> <<1>>, e |-> 0]
    ELSE IF x.e >= 0 THEN [m |-> <<>>, e |-> 0]
    ELSE RoundDouble(BigSub(BigPow2(-x.e), x.m), x.e, FALSE)

\* x * y
DoubleMul(x, y) == RoundDouble(BigMul(x.m, y.m), x.e + y.e, FALSE)

\* int(x): truncation
DoubleToInt(x) ==
    IF x.e >= 0 THEN BigMul(x.m, BigPow2(x.e)) ELSE BigShiftRight(x.m, -x.e)

\* the number of bits of a positive int below 2^64
BitLength(n) == CHOOSE b \in 1..64 : ~BigLess(n, BigPow2(b - 1)) /\ BigLess(n, BigPow2(b))

\* the greatest r with r * r <= n, r < 2^(bit + 1): one bit per step
RECURSIVE ISqrtFrom(_, _, _)
ISqrtFrom(n, r, bit) ==
    IF bit < 0 THEN r
    ELSE LET t == BigAdd(r, BigPow2(bit))
         IN  IF BigLess(n, BigMul(t, t)) THEN ISqrtFrom(n, r, bit - 1)
             ELSE ISqrtFrom(n, t, bit - 1)

DoubleSqrts_unrooted(x) == {x}

\* x ** 0.5 of a positive float: pow errs by less than one unit in the last
\* place, so it returns the root when the root is a float and one of the two
\* floats around the root otherwise.  x is m * 2^s * 4^k with
\* 2^104 <= m * 2^s < 2^106, whose integer root has 53 bits.
DoubleSqrts(x) ==
    LET s0 == 105 - BitLength(x.m)
        s == IF (x.e - s0) % 2 = 0 THEN s0 ELSE s0 + 1
        n == BigMul(x.m, BigPow2(s))
        r == ISqrtFrom(n, <<>>, 52)
        k == (x.e - s) \div 2
    IN  IF BigMul(r, r) = n THEN {[m |-> r, e |-> k]}
        ELSE {[m |-> r, e |-> k], [m |-> BigAdd(r, <<1>>), e |-> k]}

\* 2 ** 96, the unit of sqrtPriceX96 (lines 1340, 1600)
Q96_q64 == BigPow2(64)

Q96 == BigPow2(96)

\* lines 1340, 1600: sqrt_price_x96 = int((initial_price ** 0.5) * (2 ** 96)),
\* for each float the power may return
SqrtPriceX96Of(initial_price) ==
    {DoubleToInt(DoubleMul(root, DoubleFromInt(Q96))) : root \in DoubleSqrts(initial_price)}

\* line 665: min_amount_out = int(amount_out * (1 - slippage / 100))
MinAmountOut(amountOut, slippage) ==
    DoubleToInt(DoubleMul(DoubleFromInt(amountOut),
                          DoubleOneMinus(DoubleDiv100(slippage))))

\* floor(amountOut * (1 - slippage / 100)) in exact arithmetic, for a
\* slippage [m, e] with e <= 0 and value at most 100
FloorOfProduct(amountOut, slippage) ==
    LET scale == BigMulSmall(BigPow2(-slippage.e), 100)
        num == BigMul(amountOut, BigSub(scale, slippage.m))
    IN  BigShiftRight(BigDivSmall(num, 100).q, -slippage.e)

\* 10^k
BigPow10(k) ==
    [i \in 1..(k \div 4 + 1) |-> IF i = k \div 4 + 1 THEN 10 ^ (k % 4) ELSE 0]

\* A Python str is the sequence of its characters.
DigitChars == {"0", "1", "2", "3", "4", "5", "6", "7", "8", "9"}
DigitVal(c) == CHOOSE d \in 0..9 : ToString(d) = c

Chars(s, set) == {i \in 1..Len(s) : s[i] \in set}

\* int(s) accepts s: decimal digits only (no sign, blank or underscore is in
\* the alphabet of the model)
IsIntLiteral(s) == Len(s) > 0 /\ Chars(s, DigitChars) = 1..Len(s)

\* float(s) accepts s: digits with at most one point and at least one digit
\* (no exponent, "inf" or "nan" is in the alphabet of the model)
IsFloatLiteral(s) ==
    /\ Chars(s, DigitChars) # {}
    /\ Chars(s, DigitChars \cup {"."}) = 1..Len(s)
    /\ Cardinality(Chars(s, {"."})) <= 1

IsDigit(c) == c \in DigitChars

\* str.lower() changes the letters A-F of a hexadecimal address
UpperHex == <<"A", "B", "C", "D", "E", "F">>
LowerHex == <<"a", "b", "c", "d", "e", "f">>
LowerChar(c) ==
    IF \E i \in 1..6 : UpperHex[i] = c
        THEN LowerHex[CHOOSE i \in 1..6 : UpperHex[i] = c]
        ELSE c
Lower(s) == [i \in 1..Len(s) |-> LowerChar(s[i])]

\* Addresses are kept by "0x" and their first four hexadecimal digits.
NftManagerAddress == <<"0", "x", "E", "E", "5", "F">>
Wflr == <<"0", "x", "1", "D", "8", "0">>
Usdt == <<"0", "x", "0", "B", "3", "8">>

\* the digits of s read as a natural number: four digits make one base-10^4
\* digit
DigitsValue(s) ==
    LET ds == SelectSeq(s, IsDigit)
        n == Len(ds)
        At(i) == IF i >= 1 THEN DigitVal(ds[i]) ELSE 0
    IN  BigNorm([j \in 1..((n + 3) \div 4) |->
                    At(n - 4 * (j - 1)) + 10 * At(n - 4 * (j - 1) - 1)
                    + 100 * At(n - 4 * (j - 1) - 2)
                    + 1000 * At(n - 4 * (j - 1) - 3)])

\* the number of digits after the point
FractionDigits(s) ==
    IF Chars(s, {"."}) = {} THEN 0
    ELSE Len(s) - (CHOOSE i \in Chars(s, {"."}) : TRUE)

\* float(s) of a float literal with at most four fraction digits: the
\* double nearest to digits / 10^k
ParseFloat(s) ==
    LET n == DigitsValue(s)
        k == FractionDigits(s)
    IN  IF n = <<>> THEN [m |-> <<>>, e |-> 0]
        ELSE IF k = 0 THEN DoubleFromInt(n)
        ELSE LET d == BigDivSmall(BigMul(n, BigPow2(70)), 10 ^ k)
             IN  RoundDouble(d.q, -70, d.r # 0)

\* lines 563 and 569: int(float(amount_in) * 10**decimals)
ConvertAmount(amount, dec) ==
    DoubleToInt(DoubleMul(ParseFloat(amount), DoubleFromInt(BigPow10(dec))))

\* slippage arguments: 0.5 is the default of swap_tokens (line 480)
DefaultSlippage == [m |-> <<1>>, e |-> -1]

\* 2**256 - 1, the approved value (lines 586, 1397)
InfiniteAllowance == BigSub(BigPow2(256), <<1>>)

ApprovalAmount_exact(amount) == amount

\* approve(spender, 2**256 - 1): the amount approved does not depend on the
\* amount the operation needs
ApprovalAmount(amount) == InfiniteAllowance

\* initial_price = 1.0 (lines 1339, 1497)
DefaultInitialPrice == [m |-> <<1>>, e |-> 0]

\* the initial prices callers of create_pool pass: 0.25, 1.0, 2.25, 4.0
InitialPrices ==
    {[m |-> <<1>>, e |-> -2], DefaultInitialPrice, [m |-> <<9>>, e |-> -2],
     [m |-> <<1>>, e |-> 2]}

\* prices between 1e-12 and 1e12: 1e-12, 0.1, 2.0, 3.0, 1234.5678, 1e12
RoundTripPrices ==
    {[m |-> <<1521, 5714, 7601, 4951>>, e |-> -92],
     [m |-> <<6397, 189, 8797, 3602>>, e |-> -55],
     [m |-> <<1>>, e |-> 1], [m |-> <<3>>, e |-> 0],
     [m |-> <<1341, 551, 6866, 5429>>, e |-> -42],
     [m |-> <<625, 4414, 2>>, e |-> 12]}

\* SqrtPriceX96Of over the initial prices of the model, computed once
SqrtPriceTable ==
    [x \in InitialPrices \cup RoundTripPrices |-> SqrtPriceX96Of(x)] @@ <<>>

\* tick_lower = None, tick_upper = None: <<>> is None, <<t>> the tick t
NoTicks == <<<<>>, <<>>>>

\* an operation and its arguments: amount holds the amount strings of the
\* caller, amt the base-unit amounts the operation made of them
NoOp == [kind |-> "none", amount |-> <<<<>>, <<>>>>, amt |-> <<<<>>, <<>>>>,
         slippage |-> DefaultSlippage, tokens |-> <<TRUE, TRUE>>,
         ticks |-> NoTicks, initialPrice |-> DefaultInitialPrice]

(* --------------------------- the chain -------------------------------- *)
\* web3.eth.get_transaction_count(from_address): the default block is
\* 'latest', so the result counts mined transactions only.
GetTransactionCount == chainNonce

\* web3.eth.get_block('latest').timestamp: chain time, in seconds, advances
\* with every block mined
BlockTimestamp == chainNonce

\* int(time.time()): the clock of the host, clock seconds away from the
\* timestamp of the latest block
LocalTime == BlockTimestamp + clock

\* twenty minutes, lines 676 and 1422
DeadlineWindow == 1200

\* lines 675-676: deadline = int(time.time()) + 1200
SwapDeadline == LocalTime + DeadlineWindow

\* lines 1421-1422: deadline = web3.eth.get_block('latest').timestamp + 1200
MintDeadline == BlockTimestamp + DeadlineWindow

\* the deadline parameter of the call a transaction makes; 0 where the
\* call has none
Deadline(kind) ==
    CASE kind = "swap" -> SwapDeadline
      [] kind = "mint" -> MintDeadline
      [] OTHER -> 0

\* A transaction as build_transaction returns it, with its fate on the chain.
\* st: "built" (in memory), "pending" (accepted by the node), "mined".
\* sends counts the send_raw_transaction calls made with it; hash says a call
\* returned the transaction hash to the operation; seen says the operation
\* that built it has observed its receipt.
NewTx(kind, key, amt, minOut) ==
    [kind |-> kind, key |-> key, amt |-> amt, minOut |-> minOut,
     nonce |-> GetTransactionCount, st |-> "built", status |-> -1,
     sends |-> 0, hash |-> FALSE, seen |-> FALSE, deadline |-> Deadline(kind)]

\* the transactions of request p, by their position in txs[p]
OpTxs(p) == 1..Len(txs[p])
OpTxsOfKind(p, kind) == {k \in OpTxs(p) : txs[p][k].kind = kind}
\* the transaction the operation of p is working on
Cur(p) == txs[p][loc[p].cur]

\* Whether the transaction can succeed in the chain state it is mined in.
CanSucceed(t) ==
    CASE t.kind = "approve"    -> TRUE
      [] t.kind = "transfer"   -> TRUE
      [] t.kind = "swap"       -> ~BigLess(allowance["router"], t.amt[1])
      [] t.kind = "createPool" -> pool = 0
      [] t.kind = "initialize" -> pool = 1
      [] t.kind = "mint"       -> /\ pool = 2
                                  /\ ~BigLess(allowance["npm0"], t.amt[1])
                                  /\ ~BigLess(allowance["npm1"], t.amt[2])

Spend(a, n) == IF a = InfiniteAllowance THEN a ELSE BigSub(a, n)

\* The chain mines the pending transaction whose nonce is the account's next
\* nonce; it succeeds (status 1) or reverts (status 0).
Mine ==
    \E p \in Procs : \E k \in OpTxs(p), s \in {0, 1} :
        LET t == txs[p][k] IN
        /\ t.st = "pending"
        /\ t.nonce = chainNonce
        /\ s = 1 => CanSucceed(t)
        /\ txs' = [txs EXCEPT ![p][k].st = "mined", ![p][k].status = s]
        /\ chainNonce' = chainNonce + 1
        /\ allowance' =
             IF s = 0 THEN allowance
             ELSE CASE t.kind = "approve" ->
                         [allowance EXCEPT ![t.key] = t.amt[1]]
                    [] t.kind = "swap" ->
                         [allowance EXCEPT !["router"] = Spend(@, t.amt[1])]
                    [] t.kind = "mint" ->
                         [allowance EXCEPT !["npm0"] = Spend(@, t.amt[1]),
                                           !["npm1"] = Spend(@, t.amt[2])]
                    [] OTHER -> allowance
        /\ pool' =
             IF s = 0 THEN pool
             ELSE CASE t.kind = "createPool" -> 1
                    [] t.kind = "initialize" -> 2
                    [] OTHER -> pool
        /\ UNCHANGED <<procVars, envVars>>

(* ------------------ control flow shared by the operations ------------- *)
\* An operation returns an error dictionary: {"error": step, "status":
\* "error"} and, where the source adds it, "tx_hash".
Fail(p, step, hashes) ==
    /\ pc' = [pc EXCEPT ![p] = "done"]
    /\ hp' = [hp EXCEPT ![p] = "none"]
    /\ result' = [result EXCEPT ![p] =
                    [status |-> "error", error |-> step, hashes |-> hashes]]

\* An operation returns its success dictionary, "transaction_hash" included.
Succeed(p, hashes) ==
    /\ pc' = [pc EXCEPT ![p] = "done"]
    /\ hp' = [hp EXCEPT ![p] = "none"]
    /\ result' = [result EXCEPT ![p] =
                    [status |-> "success", error |-> "", hashes |-> hashes]]

\* The operation returns a dictionary: status is the value of its "status"
\* key, "absent" when it has none; error the head of its "error" value.
Answer(p, status, error) ==
    /\ pc' = [pc EXCEPT ![p] = "done"]
    /\ hp' = [hp EXCEPT ![p] = "none"]
    /\ result' = [result EXCEPT ![p] =
                    [status |-> status, error |-> error, hashes |-> {}]]

Request(p, kind) ==
    /\ pc[p] = "idle"
    /\ op' = [op EXCEPT ![p] = [NoOp EXCEPT !.kind = kind]]
    /\ UNCHANGED chainVars

Goto(p, label) ==
    /\ pc' = [pc EXCEPT ![p] = label]
    /\ UNCHANGED <<hp, result>>

\* Call of _sign_and_send_transaction; label is the statement after the call.
CallHelper(p, label) ==
    /\ pc' = [pc EXCEPT ![p] = label]
    /\ hp' = [hp EXCEPT ![p] = "send"]
    /\ UNCHANGED result

\* The caller's next statement after _sign_and_send_transaction returned.
Returned(p, label) == pc[p] = label /\ hp[p] = "none"

\* build_transaction: the nonce is read and the transaction is appended to
\* the operation's transactions
Build(p, kind, key, amt, minOut) ==
    /\ txs' = [txs EXCEPT ![p] = Append(@, NewTx(kind, key, amt, minOut))]
    /\ loc' = [loc EXCEPT ![p].cur = Len(txs[p]) + 1]

\* A request arrives and its operation starts.
\* The amount strings callers pass: the amounts of the model, a fraction
\* and a word.
WholeAmountStrings == {<<ToString(n)>> : n \in Amounts} \cup {<<"a", "b", "c">>}
AmountStrings == WholeAmountStrings \cup {<<"0", ".", "5">>}

\* ConvertAmount over the amount strings and decimals of the model (0: the
\* tokens of the model, 18: the default of line 569), computed once
AmountTable ==
    LET t == [x \in {a \in AmountStrings : IsFloatLiteral(a)} \X {0, 18} |->
                ConvertAmount(x[1], x[2])]
    IN  t @@ t

AmountInWei(amount, dec) == AmountTable[<<amount, dec>>]

\* What the calls before the first chain step return, which no state of
\* the model decides: key, whether the private key yields an account;
\* handles, how many calls of _get_contract return a contract before one
\* returns None for want of an ABI; reads, whether decimals() returns.
\* Every call returns, or one of them fails: a second failure is never
\* reached.
AllReturn == [key |-> TRUE, handles |-> 4, reads |-> TRUE]
CallOutcomes ==
    {AllReturn, [AllReturn EXCEPT !.key = FALSE], [AllReturn EXCEPT !.reads = FALSE]}
        \cup {[AllReturn EXCEPT !.handles = h] : h \in 0..3}

\* Web3.is_address of the two token addresses of a request; a request with
\* a malformed address carries the first of amounts
WellFormed == <<TRUE, TRUE>>
Requests(kind, amounts, slippages) ==
    [kind : {kind}, tokens : {WellFormed}, amount : amounts,
     amt : {<<<<>>, <<>>>>}, slippage : slippages, ticks : {NoTicks},
          initialPrice : {DefaultInitialPrice}]
    \cup [kind : {kind}, tokens : (BOOLEAN \X BOOLEAN) \ {WellFormed},
          amount : {CHOOSE a \in amounts : TRUE},
          amt : {<<<<>>, <<>>>>}, slippage : slippages, ticks : {NoTicks},
          initialPrice : {DefaultInitialPrice}]

\* Web3.is_address of the i-th token address
IsAddress_unchecked(tokens, i) == TRUE

IsAddress(tokens, i) == tokens[i]

\* lines 117-120: _get_contract returns None while the connection is down
GetContract_unchecked(resolved) == resolved

GetContract(resolved) == connected /\ resolved

\* lines 524-530, 1239-1244, 1534-1539: not connection.connected
NotConnected_ignored == FALSE

NotConnected == ~connected

PreError(error, did) == [error |-> error, did |-> did, next |-> "done", amt |-> <<<<>>, <<>>>>]
PreOk(next, did, amt) == [error |-> "", did |-> did, next |-> next, amt |-> amt]

\* request is the operation with its arguments, pre the outcome of the
\* statements before its first chain step
Begin(p, request, pre) ==
    /\ pc[p] = "idle"
    /\ op' = [op EXCEPT ![p] = [request EXCEPT !.amt = pre.amt]]
    /\ loc' = [loc EXCEPT ![p].did = pre.did]
    /\ UNCHANGED chainVars
    /\ IF pre.error = "" THEN Goto(p, pre.next) ELSE Fail(p, pre.error, {})

\* No other request is being served (a single-threaded deployment).
Free(p) == \A q \in Procs \ {p} : pc[q] \in {"idle", "returned"}

\* The caller takes the returned dictionary; the request ends.
Return(p) ==
    /\ pc[p] = "done"
    /\ pc' = [pc EXCEPT ![p] = "returned"]
    /\ op' = [op EXCEPT ![p] = NoOp]
    /\ loc' = [loc EXCEPT ![p] = NoLoc]
    /\ result' = [result EXCEPT ![p] = NoResult]
    /\ UNCHANGED <<hp, chainVars>>

\* The thread takes its next call.
NextCall(p) ==
    /\ pc[p] = "done"
    /\ pc' = [pc EXCEPT ![p] = "idle"]
    /\ op' = [op EXCEPT ![p] = NoOp]
    /\ loc' = [loc EXCEPT ![p] = NoLoc]
    /\ result' = [result EXCEPT ![p] = NoResult]
    /\ UNCHANGED <<hp, chainVars>>

(* ------------------- _sign_and_send_transaction ------------------------ *)
\* The except clause that catches an exception of the helper at each call
\* site, named by the message of the dictionary it returns.
HandlerOf(site) ==
    CASE site = "sw_approve_sent" -> "Error approving tokens"
      [] site = "al_approve_sent" -> "Error approving tokens"
      [] site \in {"al_create_sent", "al_init_sent", "al_mint_sent"} -> "Error adding liquidity"
      [] site \in {"cp_create_sent", "cp_init_sent"} -> "Error creating pool"

HelperRaise_retry(p) ==
    /\ hp' = [hp EXCEPT ![p] = "send"]
    /\ UNCHANGED <<pc, result>>

\* The helper re-raises (lines 1868, 1892); the caller's handler returns an
\* error dictionary that carries no transaction hash.
HelperRaise(p) == Fail(p, HandlerOf(pc[p]), {})

ReceiptReady_unmined(t) == t.st \in {"pending", "mined"}

\* web3.eth.wait_for_transaction_receipt(tx_hash) returns once the
\* transaction is mined.
ReceiptReady(t) == t.st = "mined"

\* what send_raw_transaction does to the transaction it is given
Submitted(p, st, hash) == [txs EXCEPT ![p][loc[p].cur].st = st,
                                      ![p][loc[p].cur].sends = @ + 1,
                                      ![p][loc[p].cur].hash = hash]

\* the node takes a transaction whose nonce is not used up
NodeAccepts(t) == t.nonce >= chainNonce

\* sign_transaction, then send_raw_transaction (lines 1815-1868)
SignAndSend(p) ==
    /\ hp[p] = "send"
    /\ UNCHANGED <<op, loc, chainNonce, allowance, pool, envVars>>
    /\ \/ /\ NodeAccepts(Cur(p))
          /\ txs' = Submitted(p, "pending", TRUE)
          /\ hp' = [hp EXCEPT ![p] = "wait"]
          /\ UNCHANGED <<pc, result>>
       \/ \* sign_transaction raises: nothing was sent
          /\ UNCHANGED txs
          /\ HelperRaise(p)
       \/ \* send_raw_transaction raises: the node refused the transaction
          /\ txs' = Submitted(p, "built", FALSE)
          /\ HelperRaise(p)
       \/ \* send_raw_transaction raises after the node took the transaction
          /\ NodeAccepts(Cur(p))
          /\ txs' = Submitted(p, "pending", FALSE)
          /\ HelperRaise(p)

\* wait_for_transaction_receipt inside the helper (line 1876), return tx_hash
HelperWait(p) ==
    /\ hp[p] = "wait"
    /\ UNCHANGED <<op, loc, chainNonce, allowance, pool, envVars>>
    /\ \/ /\ ReceiptReady(Cur(p))
          /\ txs' = [txs EXCEPT ![p][loc[p].cur].seen = TRUE]
          /\ hp' = [hp EXCEPT ![p] = "none"]
          /\ UNCHANGED <<pc, result>>
       \/ \* TimeExhausted or an RPC error
          /\ UNCHANGED txs
          /\ HelperRaise(p)

(* ----------------------------- swap_tokens ---------------------------- *)
NeedsApproval_never(allow, amount) == FALSE

NeedsApproval_orEqual(allow, amount) == ~BigLess(amount, allow)

\* the comparison of lines 581 and 1393
NeedsApproval(allow, amount) == BigLess(allow, amount)

ApprovalFailed_never(status) == FALSE

\* line 605: if receipt.status != 1
ApprovalFailed(status) == status # 1

\* line 640: fee = 3000
SwapFee == 3000

\* Lines 494-573 in their order: both addresses, the account, the
\* connection, the router and input-token handles, decimals() and the
\* conversions of the amount string.  A float() that raises at line 563
\* raises again at line 569 and int() raises at line 573 for every string
\* that is no integer literal; both end in the handler of line 842.
SwapPreamble(req, env) ==
    IF ~IsAddress(req.tokens, 1) THEN PreError("Invalid input token address", {})
    ELSE IF ~IsAddress(req.tokens, 2) THEN PreError("Invalid output token address", {})
    ELSE IF ~env.key
        THEN PreError("Failed to get account from private key", {"account"})
    ELSE IF NotConnected
        THEN PreError("Failed to connect to Ethereum node", {"account", "connection"})
    ELSE IF ~GetContract(env.handles >= 1)
        THEN PreError("Failed to get contract instance",
                      {"account", "connection", "router"})
    ELSE IF ~GetContract(env.handles >= 2)
        THEN PreError("Failed to get contract instance",
                      {"account", "connection", "router", "token"})
    ELSE LET did == {"account", "connection", "router", "token", "decimals"}
             dec == IF env.reads THEN decimals ELSE 18
         IN  IF ~IsFloatLiteral(req.amount[1]) \/ ~IsIntLiteral(req.amount[1])
                THEN PreError("Error swapping tokens", did)
                ELSE PreOk("sw_allowance", did,
                           <<AmountInWei(req.amount[1], dec), <<>>>>)

SwapRequests(slippages) == Requests("swap", AmountStrings \X {<<>>}, slippages)

\* swap_tokens is called with a slippage among slippages
StartSwapWith(p, slippages) ==
    \E req \in SwapRequests(slippages), env \in CallOutcomes :
        Begin(p, req, SwapPreamble(req, env))

\* swap_tokens is called without a slippage argument
StartSwap(p) == StartSwapWith(p, {DefaultSlippage})

\* lines 575-581, 618-625
SwapCheckAllowance(p) ==
    /\ pc[p] = "sw_allowance"
    /\ UNCHANGED <<op, chainVars>>
    /\ \/ /\ loc' = [loc EXCEPT ![p].allow[1] = allowance["router"]]
          /\ IF NeedsApproval(allowance["router"], op[p].amt[1])
                THEN Goto(p, "sw_approve_build")
                ELSE Goto(p, "sw_quote")
       \/ /\ UNCHANGED loc
          /\ Fail(p, "Error checking allowance", {})

\* lines 584-598
SwapBuildApprove(p) ==
    /\ pc[p] = "sw_approve_build"
    /\ UNCHANGED <<op, chainNonce, allowance, pool, envVars>>
    /\ \/ /\ Build(p, "approve", "router",
                   <<ApprovalAmount(op[p].amt[1]), <<>>>>, <<>>)
          /\ CallHelper(p, "sw_approve_sent")
       \/ /\ UNCHANGED <<txs, loc>>
          /\ Fail(p, "Error checking allowance", {})

\* lines 599-617
SwapApprovalReceipt(p) ==
    /\ Returned(p, "sw_approve_sent")
    /\ UNCHANGED <<op, loc, chainVars>>
    /\ \/ /\ ReceiptReady(Cur(p))
          /\ IF ApprovalFailed(Cur(p).status)
                THEN Fail(p, "Approval transaction failed", {loc[p].cur})
                ELSE Goto(p, "sw_quote")
       \/ Fail(p, "Error approving tokens", {})

\* <<fee, amountIn>> of quote_params (lines 642-648): the fee of line 640
\* and amount_in_wei
QuoteParams(p) == <<SwapFee, op[p].amt[1]>>

\* <<fee, amountIn>> of swap_params (lines 688-697)
SwapParams_converted(p) == <<SwapFee, AmountInWei(op[p].amount[1], 0)>>
SwapParams(p) == <<SwapFee, op[p].amt[1]>>

\* lines 627-672
SwapQuote(p) ==
    /\ pc[p] = "sw_quote"
    /\ UNCHANGED <<op, chainVars>>
    /\ \/ \* the quoter handle is not resolved
          /\ UNCHANGED loc
          /\ Fail(p, "Failed to get contract instance", {})
       \/ \* quoteExactInputSingle raises
          /\ loc' = [loc EXCEPT ![p].probed = Append(@, QuoteParams(p)[1]),
                                ![p].quoteParams = QuoteParams(p)]
          /\ Fail(p, "Error getting quote", {})
       \/ /\ QuoteParams(p)[1] \in quoter.ok
          /\ loc' = [loc EXCEPT ![p].probed = Append(@, QuoteParams(p)[1]),
                                ![p].quoteParams = QuoteParams(p),
                                ![p].feeTier = SwapFee,
                                ![p].amountOut = quoter.out[SwapFee],
                                ![p].minOut = MinAmountOut(quoter.out[SwapFee],
                                                           op[p].slippage)]
          /\ Goto(p, "sw_build")

\* lines 674-761
SwapBuild(p) ==
    /\ pc[p] = "sw_build"
    /\ UNCHANGED <<op, chainNonce, allowance, pool, envVars>>
    /\ \/ /\ txs' = [txs EXCEPT ![p] =
                        Append(@, NewTx("swap", "router",
                                        <<SwapParams(p)[2], op[p].amt[2]>>,
                                        loc[p].minOut))]
          /\ loc' = [loc EXCEPT ![p].cur = Len(txs[p]) + 1,
                                ![p].swapParams = SwapParams(p)]
          /\ Goto(p, "sw_send")
       \/ \* nonce, gas price or chain id read, or build_transaction, raises
          /\ UNCHANGED <<txs, loc>>
          /\ Fail(p, "Error building transaction object", {})

\* lines 763-814: the helper's code inlined; the exception is re-raised and
\* caught at line 836
SwapSend(p) ==
    /\ pc[p] = "sw_send"
    /\ UNCHANGED <<op, loc, chainNonce, allowance, pool, envVars>>
    /\ \/ /\ NodeAccepts(Cur(p))
          /\ txs' = Submitted(p, "pending", TRUE)
          /\ Goto(p, "sw_wait")
       \/ /\ UNCHANGED txs
          /\ Fail(p, "Error building swap transaction", {})
       \/ /\ txs' = Submitted(p, "built", FALSE)
          /\ Fail(p, "Error building swap transaction", {})
       \/ /\ NodeAccepts(Cur(p))
          /\ txs' = Submitted(p, "pending", FALSE)
          /\ Fail(p, "Error building swap transaction", {})

\* lines 816-841: the receipt is awaited and its status is not read
SwapReceipt(p) ==
    /\ pc[p] = "sw_wait"
    /\ UNCHANGED <<op, loc, chainNonce, allowance, pool, envVars>>
    /\ \/ /\ ReceiptReady(Cur(p))
          /\ txs' = [txs EXCEPT ![p][loc[p].cur].seen = TRUE]
          /\ Succeed(p, {loc[p].cur})
       \/ /\ UNCHANGED txs
          /\ Fail(p, "Error building swap transaction", {})

SwapStep(p) ==
    \/ SwapCheckAllowance(p)
    \/ SwapBuildApprove(p)
    \/ SwapApprovalReceipt(p)
    \/ SwapQuote(p)
    \/ SwapBuild(p)
    \/ SwapSend(p)
    \/ SwapReceipt(p)

(* ----------------------------- add_liquidity -------------------------- *)
\* Lines 1216-1297 in their order: both addresses, the account, the
\* connection, the position manager and token handles, decimals() of both
\* tokens with the float conversions, the factory handle.
AddLiquidityPreamble(req, env) ==
    IF ~IsAddress(req.tokens, 1) THEN PreError("Invalid token0 address", {})
    ELSE IF ~IsAddress(req.tokens, 2) THEN PreError("Invalid token1 address", {})
    ELSE IF ~env.key
        THEN PreError("Failed to get account from private key", {"account"})
    ELSE IF NotConnected
        THEN PreError("Failed to connect to Ethereum node", {"account", "connection"})
    ELSE IF \E n \in 1..3 : ~GetContract(env.handles >= n)
        THEN PreError("Failed to get contract instance",
                      {"account", "connection", "npm"})
    ELSE LET did == {"account", "connection", "npm", "token", "decimals"} IN
         IF ~env.reads \/ ~IsFloatLiteral(req.amount[1])
                       \/ ~IsFloatLiteral(req.amount[2])
            THEN PreError("Error getting token decimals", did)
         ELSE IF ~GetContract(env.handles >= 4)
            THEN PreError("Failed to get contract instance", did \cup {"factory"})
         ELSE PreOk("al_getpool", did \cup {"factory"},
                    <<AmountInWei(req.amount[1], decimals),
                      AmountInWei(req.amount[2], decimals)>>)

AddLiquidityRequests ==
    Requests("add_liquidity", WholeAmountStrings \X WholeAmountStrings,
             {DefaultSlippage})

\* add_liquidity called with the tick bounds of tickArgs
StartAddLiquidityWith(p, requests, tickArgs) ==
    \E req \in requests, t \in tickArgs, env \in CallOutcomes :
        Begin(p, [req EXCEPT !.ticks = t], AddLiquidityPreamble(req, env))

StartAddLiquidity(p) == StartAddLiquidityWith(p, AddLiquidityRequests, {NoTicks})

PoolIsZeroAddress_always == TRUE

\* factory.getPool(...) answers the zero address while no pool exists
PoolIsZeroAddress == pool = 0

\* the call factory.getPool(token0, token1, fee) of operation p returns
GetPool(p) == loc' = [loc EXCEPT ![p].pools = Append(@, pool)]

\* lines 1299-1304
AlGetPool(p) ==
    /\ pc[p] = "al_getpool"
    /\ UNCHANGED <<op, chainVars>>
    /\ \/ /\ GetPool(p)
          /\ IF PoolIsZeroAddress
                THEN Goto(p, "al_create_build")
                ELSE Goto(p, "al_ticks")
       \/ /\ UNCHANGED loc
          /\ Fail(p, "Error adding liquidity", {})

\* lines 1306-1320
AlBuildCreate(p) ==
    /\ pc[p] = "al_create_build"
    /\ UNCHANGED <<op, chainNonce, allowance, pool, envVars>>
    /\ \/ /\ Build(p, "createPool", "factory", <<<<>>, <<>>>>, <<>>)
          /\ CallHelper(p, "al_create_sent")
       \/ /\ UNCHANGED <<txs, loc>>
          /\ Fail(p, "Error adding liquidity", {})

\* lines 1321-1332: the receipt is fetched, its status is not read; the pool
\* is looked up again
AlCreateReceipt(p) ==
    /\ Returned(p, "al_create_sent")
    /\ UNCHANGED <<op, chainVars>>
    /\ \/ /\ ReceiptReady(Cur(p))
          /\ GetPool(p)
          /\ IF PoolIsZeroAddress
                THEN Fail(p, "Failed to create pool", {})
                ELSE Goto(p, "al_init_build")
       \/ /\ UNCHANGED loc
          /\ Fail(p, "Error adding liquidity", {})

\* lines 1334-1352
AlBuildInit(p) ==
    /\ pc[p] = "al_init_build"
    /\ UNCHANGED <<op, chainNonce, allowance, pool, envVars>>
    /\ \/ /\ \E sqrt_price_x96 \in SqrtPriceTable[DefaultInitialPrice] :
                Build(p, "initialize", "pool", <<sqrt_price_x96, <<>>>>, <<>>)
          /\ CallHelper(p, "al_init_sent")
       \/ /\ UNCHANGED <<txs, loc>>
          /\ Fail(p, "Error adding liquidity", {})

\* lines 1353-1355
AlInitReceipt(p) ==
    /\ Returned(p, "al_init_sent")
    /\ UNCHANGED <<op, loc, chainVars>>
    /\ \/ /\ ReceiptReady(Cur(p))
          /\ Goto(p, "al_ticks")
       \/ Fail(p, "Error adding liquidity", {})

\* lines 1378 and 1383: tick - (tick % tick_spacing); Python's % takes the
\* sign of the divisor, so for tick_spacing > 0 it is the % of TLA+
SnapToSpacing_unsnapped(tick, spacing) == tick

SnapToSpacing(tick, spacing) == tick - (tick % spacing)

\* lines 1376-1378
DefaultTickLower(current, spacing) ==
    SnapToSpacing(current - (10 * spacing), spacing)

\* the upper bound snapped to the next multiple above
DefaultTickUpper_snappedUp(current, spacing) ==
    SnapToSpacing(current + (10 * spacing) + (spacing - 1), spacing)

\* lines 1381-1383
DefaultTickUpper(current, spacing) ==
    SnapToSpacing(current + (10 * spacing), spacing)

\* both bounds derived as soon as one is missing
TickBounds_rederived(args, current, spacing) ==
    IF <<>> \in {args[1], args[2]}
        THEN <<DefaultTickLower(current, spacing),
               DefaultTickUpper(current, spacing)>>
        ELSE <<args[1][1], args[2][1]>>

\* lines 1370-1383: a bound that was not supplied is derived
TickBounds(args, current, spacing) ==
    <<IF args[1] = <<>> THEN DefaultTickLower(current, spacing) ELSE args[1][1],
      IF args[2] = <<>> THEN DefaultTickUpper(current, spacing) ELSE args[2][1]>>

\* lines 1357-1384: pool handle, slot0, tick spacing and the tick bounds;
\* a tick spacing of 0 raises ZeroDivisionError
AlTicks(p) ==
    /\ pc[p] = "al_ticks"
    /\ UNCHANGED <<op, chainVars>>
    /\ \/ /\ <<>> \in {op[p].ticks[1], op[p].ticks[2]} => slot0.spacing > 0
          /\ loc' = [loc EXCEPT ![p].ticks =
                        TickBounds(op[p].ticks, slot0.tick, slot0.spacing)]
          /\ Goto(p, "al_allowance")
       \/ /\ UNCHANGED loc
          /\ Fail(p, "Failed to get contract instance for pool", {})
       \/ /\ UNCHANGED loc
          /\ Fail(p, "Error adding liquidity", {})

\* the rest of the loop of line 1387 after token loc[p].tok is dealt with
AlNextToken(p) ==
    IF loc[p].tok = 1
        THEN /\ Goto(p, "al_allowance")
             /\ loc' = [loc EXCEPT ![p].tok = 2]
        ELSE /\ Goto(p, "al_mint_build")
             /\ UNCHANGED loc

\* lines 1387-1393, one token of the loop
AlCheckAllowance(p) ==
    /\ pc[p] = "al_allowance"
    /\ UNCHANGED <<op, chainVars>>
    /\ LET i == loc[p].tok IN
       \/ IF NeedsApproval(allowance[NpmKey(i)], op[p].amt[i])
             THEN /\ Goto(p, "al_approve_build")
                  /\ loc' = [loc EXCEPT ![p].allow[i] = allowance[NpmKey(i)]]
             ELSE /\ pc' = [pc EXCEPT ![p] = IF i = 1 THEN "al_allowance" ELSE "al_mint_build"]
                  /\ loc' = [loc EXCEPT ![p].allow[i] = allowance[NpmKey(i)],
                                        ![p].tok = IF i = 1 THEN 2 ELSE i]
                  /\ UNCHANGED <<hp, result>>
       \/ /\ UNCHANGED loc
          /\ Fail(p, "Error approving tokens", {})

\* lines 1394-1407
AlBuildApprove(p) ==
    /\ pc[p] = "al_approve_build"
    /\ UNCHANGED <<op, chainNonce, allowance, pool, envVars>>
    /\ \/ /\ Build(p, "approve", NpmKey(loc[p].tok),
                   <<ApprovalAmount(op[p].amt[loc[p].tok]), <<>>>>, <<>>)
          /\ CallHelper(p, "al_approve_sent")
       \/ /\ UNCHANGED <<txs, loc>>
          /\ Fail(p, "Error approving tokens", {})

\* lines 1408-1415: the receipt is fetched and its status is not read
AlApproveReceipt(p) ==
    /\ Returned(p, "al_approve_sent")
    /\ UNCHANGED <<op, chainVars>>
    /\ \/ /\ ReceiptReady(Cur(p))
          /\ AlNextToken(p)
       \/ /\ UNCHANGED loc
          /\ Fail(p, "Error approving tokens", {})

\* lines 1417-1448
AlBuildMint(p) ==
    /\ pc[p] = "al_mint_build"
    /\ UNCHANGED <<op, chainNonce, allowance, pool, envVars>>
    /\ \/ /\ Build(p, "mint", "npm", op[p].amt, <<>>)
          /\ CallHelper(p, "al_mint_sent")
       \/ /\ UNCHANGED <<txs, loc>>
          /\ Fail(p, "Error adding liquidity", {})

\* web3.keccak(text="IncreaseLiquidity(uint256,uint128,uint256,uint256)")
EventSignature == "IncreaseLiquidity"

FromPositionManager_anyContract(address) == TRUE

\* line 1456: log['address'].lower() == nft_manager_address.lower()
FromPositionManager(address) == Lower(address) = Lower(NftManagerAddress)

\* lines 1456-1466 for one log: <<n>> when the log sets token_id to n, <<>>
\* when it is skipped; an IndexError on a missing topic is caught and passed
LogTokenId(log) ==
    IF ~FromPositionManager(log.address) THEN <<>>
    ELSE IF Len(log.topics) < 1 THEN <<>>
    ELSE IF log.topics[1] # EventSignature THEN <<>>
    ELSE IF Len(log.topics) < 2 THEN <<>>
    ELSE <<log.topics[2]>>

\* the loop of line 1455 from log i on: it breaks at the first log that sets
\* token_id
RECURSIVE ExtractFrom(_, _)
ExtractFrom(logs, i) ==
    IF i > Len(logs) THEN <<>>
    ELSE IF LogTokenId(logs[i]) # <<>> THEN LogTokenId(logs[i])
    ELSE ExtractFrom(logs, i + 1)
ExtractTokenId(logs) == ExtractFrom(logs, 1)

\* What a mint receipt can carry: logs of the position manager (its address
\* in checksum case or in lower case) and of another contract, with or
\* without the event signature and the token id topic.
Log(address, topics) == [address |-> address, topics |-> topics]
ReceiptLogs ==
    { <<>>,
      <<Log(Wflr, <<EventSignature, 9>>)>>,
      <<Log(NftManagerAddress, <<"Transfer", 7>>)>>,
      <<Log(NftManagerAddress, <<>>)>>,
      <<Log(NftManagerAddress, <<EventSignature>>),
        Log(Lower(NftManagerAddress), <<EventSignature, 7>>)>>,
      <<Log(Wflr, <<"Transfer">>),
        Log(NftManagerAddress, <<"Transfer", 7>>),
        Log(NftManagerAddress, <<EventSignature, 7>>)>> }

\* lines 1449-1488: the receipt is fetched, its status is not read, the token
\* id is looked for in the logs and the success dictionary is returned with
\* "token_id": token_id
AlMintReceipt(p) ==
    /\ Returned(p, "al_mint_sent")
    /\ UNCHANGED <<op, chainVars>>
    /\ \/ /\ ReceiptReady(Cur(p))
          /\ \E logs \in IF Cur(p).status = 1 THEN ReceiptLogs ELSE {<<>>} :
                loc' = [loc EXCEPT ![p].logs = <<logs>>,
                                   ![p].tokenId = ExtractTokenId(logs)]
          /\ Succeed(p, {loc[p].cur})
       \/ /\ UNCHANGED loc
          /\ Fail(p, "Error adding liquidity", {})

AddLiquidityStep(p) ==
    \/ AlGetPool(p)
    \/ AlBuildCreate(p)
    \/ AlCreateReceipt(p)
    \/ AlBuildInit(p)
    \/ AlInitReceipt(p)
    \/ AlTicks(p)
    \/ AlCheckAllowance(p)
    \/ AlBuildApprove(p)
    \/ AlApproveReceipt(p)
    \/ AlBuildMint(p)
    \/ AlMintReceipt(p)

(* ------------------------------ create_pool --------------------------- *)
\* Lines 1511-1554 in their order: both addresses, the account, the
\* connection, the factory handle.
CreatePoolPreamble(req, env) ==
    IF ~IsAddress(req.tokens, 1) THEN PreError("Invalid token0 address", {})
    ELSE IF ~IsAddress(req.tokens, 2) THEN PreError("Invalid token1 address", {})
    ELSE IF ~env.key
        THEN PreError("Failed to get account from private key", {"account"})
    ELSE IF NotConnected
        THEN PreError("Failed to connect to Ethereum node", {"account", "connection"})
    ELSE IF ~GetContract(env.handles >= 1)
        THEN PreError("Failed to get contract instance",
                      {"account", "connection", "factory"})
    ELSE PreOk("cp_getpool", {"account", "connection", "factory"}, <<<<>>, <<>>>>)

CreatePoolRequests == Requests("create_pool", {<<<<>>, <<>>>>}, {DefaultSlippage})

StartCreatePool(p) ==
    \E req \in CreatePoolRequests, env \in CallOutcomes :
        Begin(p, req, CreatePoolPreamble(req, env))

\* lines 1556-1565
CpGetPool(p) ==
    /\ pc[p] = "cp_getpool"
    /\ UNCHANGED <<op, chainVars>>
    /\ \/ /\ GetPool(p)
          /\ IF PoolIsZeroAddress
                THEN Goto(p, "cp_create_build")
                ELSE Fail(p, "Pool already exists", {})
       \/ /\ UNCHANGED loc
          /\ Fail(p, "Error creating pool", {})

\* lines 1567-1581
CpBuildCreate(p) ==
    /\ pc[p] = "cp_create_build"
    /\ UNCHANGED <<op, chainNonce, allowance, pool, envVars>>
    /\ \/ /\ Build(p, "createPool", "factory", <<<<>>, <<>>>>, <<>>)
          /\ CallHelper(p, "cp_create_sent")
       \/ /\ UNCHANGED <<txs, loc>>
          /\ Fail(p, "Error creating pool", {})

\* lines 1582-1593
CpCreateReceipt(p) ==
    /\ Returned(p, "cp_create_sent")
    /\ UNCHANGED <<op, chainVars>>
    /\ \/ /\ ReceiptReady(Cur(p))
          /\ GetPool(p)
          /\ IF PoolIsZeroAddress
                THEN Fail(p, "Failed to create pool", {})
                ELSE Goto(p, "cp_init_build")
       \/ /\ UNCHANGED loc
          /\ Fail(p, "Error creating pool", {})

\* lines 1595-1612
CpBuildInit(p) ==
    /\ pc[p] = "cp_init_build"
    /\ UNCHANGED <<op, chainNonce, allowance, pool, envVars>>
    /\ \/ /\ \E sqrt_price_x96 \in SqrtPriceTable[op[p].initialPrice] :
                Build(p, "initialize", "pool", <<sqrt_price_x96, <<>>>>, <<>>)
          /\ CallHelper(p, "cp_init_sent")
       \/ /\ UNCHANGED <<txs, loc>>
          /\ Fail(p, "Error creating pool", {})

\* lines 1613-1646: the receipt is fetched, its status is not read; the token
\* symbols are read and the success dictionary is returned
CpInitReceipt(p) ==
    /\ Returned(p, "cp_init_sent")
    /\ UNCHANGED <<op, loc, chainVars>>
    /\ \/ /\ ReceiptReady(Cur(p))
          /\ Succeed(p, {loc[p].cur})
       \/ \* the receipt wait or a symbol() call raises
          Fail(p, "Error creating pool", {})

CreatePoolStep(p) ==
    \/ CpGetPool(p)
    \/ CpBuildCreate(p)
    \/ CpCreateReceipt(p)
    \/ CpBuildInit(p)
    \/ CpInitReceipt(p)

(* ---------------------------- get_token_price ------------------------- *)
FeeTiers_descending == <<10000, 3000, 500, 100>>

\* line 385: fee_tiers = [100, 500, 3000, 10000]
FeeTiers == <<100, 500, 3000, 10000>>

\* Lines 347-378 in their order: both addresses, the quoter handle, the
\* connection.
PricePreamble(req, env) ==
    IF ~IsAddress(req.tokens, 1) THEN PreError("Invalid token address", {})
    ELSE IF ~IsAddress(req.tokens, 2) THEN PreError("Invalid quote token address", {})
    ELSE IF ~GetContract(env.handles >= 1)
        THEN PreError("Failed to get contract instance", {"connection", "quoter"})
    ELSE IF NotConnected
        THEN PreError("Failed to connect to Ethereum node", {"connection", "quoter"})
    ELSE PreOk("gp_probe", {"connection", "quoter"}, <<<<>>, <<>>>>)

PriceRequests == Requests("price", {<<<<>>, <<>>>>}, {DefaultSlippage})

StartPrice(p) ==
    \E req \in PriceRequests, env \in CallOutcomes :
        Begin(p, req, PricePreamble(req, env))

TierFailed_abort(p) == Fail(p, "Could not get price", {})

\* lines 413-415: except Exception: continue
TierFailed(p) == Goto(p, "gp_probe")

\* lines 387-417: one iteration of the loop over fee_tiers, or its end.  The
\* call of quoteExactInputSingle returns for the tiers the quoter answers
\* and raises for the others; the handler goes on to the next tier.
PriceProbe(p) ==
    /\ pc[p] = "gp_probe"
    /\ UNCHANGED <<op, chainVars>>
    /\ LET i == Len(loc[p].probed) + 1 IN
       IF i > Len(FeeTiers)
          THEN /\ UNCHANGED loc
               /\ Fail(p, "Could not get price", {})
          ELSE LET fee == FeeTiers[i] IN
               IF fee \in quoter.ok
                  THEN /\ loc' = [loc EXCEPT ![p].probed = Append(@, fee),
                                             ![p].feeTier = fee,
                                             ![p].amountOut = quoter.out[fee]]
                       /\ Succeed(p, {})
                  ELSE /\ loc' = [loc EXCEPT ![p].probed = Append(@, fee)]
                       /\ TierFailed(p)

(* ------------------- ethereum.py: send_transaction -------------------- *)
\* Lines 217-249 in their order: the account, the recipient address, the
\* connection, the value in wei.
SendTransactionPreamble(req, env) ==
    IF ~env.key
        THEN PreError("Failed to get account from private key", {"account"})
    ELSE IF ~IsAddress(req.tokens, 1)
        THEN PreError("Invalid recipient address", {"account"})
    ELSE IF NotConnected
        THEN PreError("Failed to connect to Ethereum node", {"account", "connection"})
    ELSE PreOk("st_balance", {"account", "connection"},
               <<BigMul(DigitsValue(req.amount[1]), BigPow10(18)), <<>>>>)

\* to_address well-formed or not, a value in ether
SendTransactionRequests ==
    {[NoOp EXCEPT !.kind = "send_transaction", !.tokens = <<b, TRUE>>,
                  !.amount = <<<<"1">>, <<>>>>] : b \in BOOLEAN}

StartSendTransaction(p) ==
    \E req \in SendTransactionRequests, env \in CallOutcomes :
        Begin(p, req, SendTransactionPreamble(req, env))

\* lines 251-265: get_balance, gas_price and the comparison
StBalance(p) ==
    /\ pc[p] = "st_balance"
    /\ UNCHANGED <<op, loc, chainVars>>
    /\ \/ Goto(p, "st_build")
       \/ Fail(p, "Insufficient funds", {})
       \/ Fail(p, "Error sending transaction", {})

\* lines 267-283: the nonce, the network name, the chain id
StBuild(p) ==
    /\ pc[p] = "st_build"
    /\ UNCHANGED <<op, chainNonce, allowance, pool, envVars>>
    /\ \/ /\ Build(p, "transfer", "none", op[p].amt, <<>>)
          /\ Goto(p, "st_send")
       \/ /\ UNCHANGED <<txs, loc>>
          /\ Fail(p, "Error sending transaction", {})

\* lines 285-318: sign, send_raw_transaction, return the hash; no receipt is
\* awaited
StSend(p) ==
    /\ pc[p] = "st_send"
    /\ UNCHANGED <<op, loc, chainNonce, allowance, pool, envVars>>
    /\ \/ /\ NodeAccepts(Cur(p))
          /\ txs' = Submitted(p, "pending", TRUE)
          /\ Succeed(p, {loc[p].cur})
       \/ /\ UNCHANGED txs
          /\ Fail(p, "Error sending transaction", {})
       \/ /\ txs' = Submitted(p, "built", FALSE)
          /\ Fail(p, "Error sending transaction", {})
       \/ /\ NodeAccepts(Cur(p))
          /\ txs' = Submitted(p, "pending", FALSE)
          /\ Fail(p, "Error sending transaction", {})

SendTransactionStep(p) ==
    \/ StBalance(p)
    \/ StBuild(p)
    \/ StSend(p)

(* ------------------------- the read operations ------------------------ *)
\* ethereum.py get_eth_balance, lines 60-73: the address, the connection
GetEthBalancePreamble(req, env) ==
    IF ~IsAddress(req.tokens, 1) THEN PreError("Invalid Ethereum address", {})
    ELSE IF NotConnected
        THEN PreError("Failed to connect to Ethereum node", {"connection"})
    ELSE PreOk("eb_call", {"connection"}, <<<<>>, <<>>>>)

StartGetEthBalance(p) ==
    \E b \in BOOLEAN, env \in CallOutcomes :
        LET req == [NoOp EXCEPT !.kind = "get_eth_balance", !.tokens = <<b, TRUE>>]
        IN  Begin(p, req, GetEthBalancePreamble(req, env))

\* ethereum.py lines 77-104: get_balance and the network name
GetEthBalanceCall(p) ==
    /\ pc[p] = "eb_call"
    /\ UNCHANGED <<op, loc, chainVars>>
    /\ \/ Succeed(p, {})
       \/ Fail(p, "Error getting balance", {})

\* sparkdex.py get_token_info, lines 1079-1086: the token handle; the
\* connection is checked inside _get_contract
GetTokenInfoPreamble(req, env) ==
    IF ~GetContract(env.handles >= 1)
        THEN PreError("Failed to get contract instance", {"connection", "token"})
    ELSE PreOk("ti_call", {"connection", "token"}, <<<<>>, <<>>>>)

StartGetTokenInfo(p) ==
    \E env \in CallOutcomes :
        LET req == [NoOp EXCEPT !.kind = "get_token_info"]
        IN  Begin(p, req, GetTokenInfoPreamble(req, env))

\* sparkdex.py lines 1088-1118: name, symbol, decimals and totalSupply, each
\* call in a try of its own with a default
GetTokenInfoCalls(p) ==
    /\ pc[p] = "ti_call"
    /\ UNCHANGED <<op, loc, chainVars>>
    /\ Succeed(p, {})

(* ------------------------------ ABI store ----------------------------- *)
\* abi_utils.py.  ABI names and addresses are Python strs; an address is kept
\* by "0x" and its first four hexadecimal digits.
Erc20 == <<"e", "r", "c", "2", "0">>

\* CONTRACT_ABI_MAPPING as the module defines it: a dict, kept as the set of
\* its items
ContractAbiMapping ==
    {[address |-> Wflr, name |-> Erc20], [address |-> Usdt, name |-> Erc20]}

\* the files ABI_DIR may hold: <name>.json and <address>.json
AbiFiles == {Erc20, Wflr, NftManagerAddress}
FileStates == {"missing", "invalid", "valid"}

\* an ABI is known by where it came from; NoAbi is None
NoAbi == [from |-> "none", of |-> <<>>]
FileAbi(file) == [from |-> "file", of |-> file]
ExplorerAbi(address) == [from |-> "explorer", of |-> address]

AbiStore(files) ==
    [files |-> files, mapping |-> ContractAbiMapping, cache |-> {},
     calls |-> <<>>]

\* `key in d` and d[key] of a dict: str equality, letter case included
InDict(d, key) == \E e \in d : e.address = key
DictGet(d, key) == (CHOOSE e \in d : e.address = key).name
Cached_never(key) == FALSE

\* line 45: contract_name in _abi_cache
Cached(key) == \E e \in abis.cache : e.key = key
CacheGet(key) == (CHOOSE e \in abis.cache : e.key = key).abi

StartsWith0x(s) == Len(s) >= 2 /\ s[1] = "0" /\ s[2] = "x"

\* lines 49-63: the file load_abi looks for
AbiFileOf(contract_name) ==
    IF StartsWith0x(contract_name) /\ InDict(abis.mapping, contract_name)
        THEN DictGet(abis.mapping, contract_name)
        ELSE contract_name

FileState(file) ==
    IF file \in DOMAIN abis.files THEN abis.files[file] ELSE "missing"

\* line 71: _abi_cache[contract_name] = abi
CacheKey(contract_name) == contract_name

\* load_abi: what it raises ("" when it returns), the ABI it returns, the
\* cache it leaves and the files it has read
LoadAbi(contract_name) ==
    LET file == AbiFileOf(contract_name) IN
    IF Cached(CacheKey(contract_name))
        THEN [raised |-> "", abi |-> CacheGet(CacheKey(contract_name)),
              cache |-> abis.cache, reads |-> <<>>]
    ELSE IF FileState(file) = "missing"
        THEN [raised |-> "FileNotFoundError", abi |-> NoAbi,
              cache |-> abis.cache, reads |-> <<>>]
    ELSE IF FileState(file) = "invalid"
        THEN [raised |-> "ValueError", abi |-> NoAbi,
              cache |-> abis.cache, reads |-> <<file>>]
    ELSE [raised |-> "", abi |-> FileAbi(file),
          cache |-> abis.cache \cup
                      {[key |-> CacheKey(contract_name), abi |-> FileAbi(file)]},
          reads |-> <<file>>]

\* sparkdex.py _get_contract_abi: the local ABIs first, the explorer when
\* load_abi raised FileNotFoundError; any other exception gives None.
\* answers says whether the explorer returns the ABI of the address.
GetContractAbi(contract_address, answers) ==
    LET l == LoadAbi(contract_address) IN
    IF l.raised = "FileNotFoundError"
        THEN [abi |-> IF answers THEN ExplorerAbi(contract_address) ELSE NoAbi,
              cache |-> l.cache, reads |-> l.reads, fetched |-> TRUE]
        ELSE [abi |-> l.abi, cache |-> l.cache, reads |-> l.reads,
              fetched |-> FALSE]

\* sparkdex.py _get_contract(contract_address, abi): abi is <<>> (None) or an
\* ABI name; the contract is made from the ABI found, None without one
GetContractWithAbi(contract_address, abi, answers) ==
    IF ~connected
        THEN [abi |-> NoAbi, cache |-> abis.cache, reads |-> <<>>,
              fetched |-> FALSE]
    ELSE IF abi = <<>>
        THEN GetContractAbi(contract_address, answers)
    ELSE LET l == LoadAbi(abi) IN
         [abi |-> l.abi, cache |-> l.cache, reads |-> l.reads,
          fetched |-> FALSE]

MaxCalls == 3
AbiAddresses == {Wflr, Lower(Wflr), NftManagerAddress}

Record(fn, address, name, r) ==
    /\ Len(abis.calls) < MaxCalls
    /\ abis' = [abis EXCEPT
                  !.cache = r.cache,
                  !.calls = Append(@, [fn |-> fn, address |-> address,
                                       name |-> name, reads |-> r.reads,
                                       fetched |-> r.fetched, abi |-> r.abi,
                                       mapping |-> abis.mapping])]
    /\ UNCHANGED <<procVars, txs, chainNonce, allowance, pool, quoter,
                   connected, clock, slot0, decimals, onion, connects>>

GetContractCall ==
    \E address \in AbiAddresses, abi \in {<<>>, Erc20}, answers \in BOOLEAN :
        Record("_get_contract", address, abi,
               GetContractWithAbi(address, abi, answers))

\* load_abi('erc20') of lines 1081 and 1166
LoadAbiCall ==
    LET l == LoadAbi(Erc20) IN
    Record("load_abi", <<>>, Erc20,
           [abi |-> l.abi, cache |-> l.cache, reads |-> l.reads,
            fetched |-> FALSE])

\* abi_utils.py add_token_to_abi_mapping(token_address, "erc20")
AddTokenToAbiMapping ==
    \E token_address \in AbiAddresses :
        /\ ~InDict(abis.mapping, token_address)
        /\ abis' = [abis EXCEPT !.mapping =
                      @ \cup {[address |-> token_address, name |-> Erc20]}]
        /\ UNCHANGED <<procVars, txs, chainNonce, allowance, pool, quoter,
                       connected, clock, slot0, decimals, onion, connects>>

\* add_token_to_abi_mapping statement by statement, as threads run it: the
\* function takes no lock, and the interpreter may switch threads between
\* the membership test of line 163 and the assignment of line 166.
QuoterV2Abi == <<"q", "u", "o", "t", "e", "r", "_", "v", "2", "_", "a", "b", "i">>
AbiNames == {Erc20, QuoterV2Abi}
TokenAddressArguments == {NftManagerAddress, Wflr}

\* the call: mapped keeps <<token_address, abi_name>>
AddTokenCall(p) ==
    \E token_address \in TokenAddressArguments, abi_name \in AbiNames :
        /\ Request(p, "add_token_to_abi_mapping")
        /\ loc' = [loc EXCEPT ![p].mapped = <<token_address, abi_name>>]
        /\ Goto(p, "mapping_check")

\* lines 163-164
MappingCheck(p) ==
    /\ pc[p] = "mapping_check"
    /\ IF InDict(abis.mapping, loc[p].mapped[1])
       THEN Answer(p, "False", "")
       ELSE Goto(p, "mapping_store")
    /\ UNCHANGED <<op, loc, chainVars>>

\* d[key] = value of a dict: the item of the key is replaced
DictSet(d, key, value) ==
    {e \in d : e.address # key} \cup {[address |-> key, name |-> value]}

\* lines 166-167
MappingStore(p) ==
    /\ pc[p] = "mapping_store"
    /\ abis' = [abis EXCEPT !.mapping =
                  DictSet(@, loc[p].mapped[1], loc[p].mapped[2])]
    /\ Answer(p, "True", "")
    /\ UNCHANGED <<op, loc, txs, chainNonce, allowance, pool, quoter,
                   connected, clock, slot0, decimals, onion, connects>>

(* ------------------------------ pool prices --------------------------- *)
\* a * b, the recursion over the shorter operand
BigProduct(a, b) == IF Len(a) < Len(b) THEN BigMul(b, a) ELSE BigMul(a, b)

\* x = y for doubles: [m, e] is not unique
DoubleEq(x, y) ==
    LET lo == IF x.e < y.e THEN x.e ELSE y.e IN
    BigProduct(BigPow2(x.e - lo), x.m) = BigProduct(BigPow2(y.e - lo), y.m)

\* n / (2 ** k) of an int n: int true division rounds the exact quotient
DoubleDivPow2(n, k) == RoundDouble(n, -k, FALSE)

\* a divmod 10^k: a base-10^4 digit is four decimal digits
DivModPow10(a, k) ==
    LET limbs == IF k \div 4 < Len(a) THEN k \div 4 ELSE Len(a)
        d == BigDivSmall(SubSeq(a, limbs + 1, Len(a)), 10 ^ (k % 4))
    IN  [q |-> d.q,
         r |-> BigAdd(BigProduct(BigPow10(4 * limbs), BigFromInt(d.r)),
                      BigNorm(SubSeq(a, 1, limbs)))]

\* the double nearest to c / 10^k: c is scaled by 2^j so that the quotient
\* has more than 53 bits (c >= 2^(13 * (Len(c) - 1)) and 10^k < 2^(4 * k))
DoubleOfQuotient(c, k) ==
    IF c = <<>> THEN [m |-> <<>>, e |-> 0]
    ELSE LET need == 54 + 4 * k - 13 * (Len(c) - 1)
             j == IF need > 0 THEN need ELSE 0
             d == DivModPow10(BigProduct(BigPow2(j), c), k)
         IN  RoundDouble(d.q, -j, d.r # <<>>)

\* 10 ** k of two ints: an int for k >= 0, the float 10.0 ** k for k < 0
DoublePow10(k) ==
    IF k >= 0 THEN DoubleFromInt(BigPow10(k)) ELSE DoubleOfQuotient(<<1>>, -k)

\* A decimal.Decimal is [c, e] standing for c * 10^e; the default context
\* rounds every result to 28 significant digits, ties to even.
Precision == 28
DecimalDigits(c) ==
    IF c = <<>> THEN 0
    ELSE 4 * (Len(c) - 1) +
         (CHOOSE n \in 1..4 : 10 ^ (n - 1) <= c[Len(c)] /\ c[Len(c)] < 10 ^ n)

DecimalRound(c, e) ==
    IF DecimalDigits(c) <= Precision THEN [c |-> c, e |-> e]
    ELSE LET k == DecimalDigits(c) - Precision
             d == DivModPow10(c, k)
             half == BigMulSmall(BigPow10(k - 1), 5)
             up == BigLess(half, d.r) \/ (d.r = half /\ d.q[1] % 2 = 1)
         IN  [c |-> IF up THEN BigAdd(d.q, <<1>>) ELSE d.q, e |-> e + k]

\* Decimal(n) of an int and Decimal(x) of a float are exact
DecimalFromInt(n) == [c |-> n, e |-> 0]
DecimalFromDouble(x) ==
    IF x.e >= 0 THEN [c |-> BigProduct(BigPow2(x.e), x.m), e |-> 0]
    ELSE [c |-> BigProduct(BigShiftRight(BigPow10(-x.e), -x.e), x.m), e |-> x.e]

DecimalMul(x, y) == DecimalRound(BigProduct(x.c, y.c), x.e + y.e)

\* Decimal(n) / Decimal(2**k): n / 2^k is n * 5^k / 10^k
DecimalDivPow2(n, k) ==
    DecimalRound(BigProduct(BigShiftRight(BigPow10(k), k), n), -k)

\* float(d): the double nearest to the decimal
DoubleFromDecimal(d) ==
    IF d.e >= 0 THEN DoubleFromInt(BigProduct(BigPow10(d.e), d.c))
    ELSE DoubleOfQuotient(d.c, -d.e)


\* get_detailed_pool_data, lines 1029-1033:
\* (sqrt_price_x96 / (2**96))**2 * (10 ** (token0_decimals - token1_decimals))
PriceDetailed(sqrt_price_x96, token0_decimals, token1_decimals) ==
    LET x == DoubleDivPow2(sqrt_price_x96, 96)
        price_raw == DoubleMul(x, x)
        adjustment == DoublePow10(token0_decimals - token1_decimals)
    IN  \* a product with a zero factor is zero
        IF x.m = <<>> \/ price_raw.m = <<>> \/ adjustment.m = <<>>
            THEN [m |-> <<>>, e |-> 0]
            ELSE DoubleMul(price_raw, adjustment)

\* calculate_price_from_sqrt_price_x96, lines 1801-1810
CalculatePriceFromSqrtPriceX96(sqrt_price_x96, token0_decimals, token1_decimals) ==
    LET sqrt_price == DecimalDivPow2(sqrt_price_x96, 96)
        price == DecimalMul(sqrt_price, sqrt_price)
        k == token1_decimals - token0_decimals
        decimal_adjustment ==
            IF k >= 0 THEN DecimalFromInt(BigPow10(k))
            ELSE DecimalFromDouble(DoublePow10(k))
        adjusted_price == DecimalMul(price, decimal_adjustment)
    IN  \* a product with a zero factor is zero
        IF sqrt_price.c = <<>> \/ price.c = <<>> \/ decimal_adjustment.c = <<>>
           \/ adjusted_price.c = <<>>
            THEN [m |-> <<>>, e |-> 0]
            ELSE DoubleFromDecimal(adjusted_price)

(* ------------------------- the pool read operations ------------------- *)
\* token_addresses.py lines 7-19 and 22-64: TOKEN_ADDRESSES and the
\* "decimals" of TOKEN_INFO, for the two tokens of the model
TokenAddresses ==
    {[symbol |-> "WFLR", address |-> Wflr], [symbol |-> "USDT", address |-> Usdt]}
TokenInfo ==
    {[symbol |-> "WFLR", decimals |-> 18], [symbol |-> "USDT", decimals |-> 6]}

\* get_token_by_address, token_addresses.py lines 102-106: <<>> is None
GetTokenByAddress(address) ==
    LET hits == {t \in TokenAddresses : Lower(t.address) = Lower(address)}
    IN  IF hits = {} THEN <<>> ELSE <<(CHOOSE t \in hits : TRUE).symbol>>

InTokenInfo(symbol) == \E t \in TokenInfo : t.symbol = symbol
TokenInfoDecimals(symbol) == (CHOOSE t \in TokenInfo : t.symbol = symbol).decimals

\* a token that is in neither table
OtherToken == <<"0", "x", "A", "b", "c", "d">>

\* What the calls on one token of the pool return: address is what token0()
\* or token1() returned; handle, whether _get_contract finds an ABI for it;
\* symbol, <<>> when symbol() raises and <<name>> otherwise; decimals, <<>>
\* when decimals() raises and <<d>> otherwise.  The tokens of the tables
\* have the decimals the tables record.
TokenReads ==
    {t \in [address : {Wflr, Usdt, OtherToken}, handle : BOOLEAN,
            symbol : {<<>>, <<"SYM">>}, decimals : {<<>>, <<6>>, <<18>>}] :
        \A s \in {"WFLR", "USDT"} :
            GetTokenByAddress(t.address) = <<s>> /\ t.decimals # <<>>
                => t.decimals[1] = TokenInfoDecimals(s)}
PoolTokenReads == {r \in TokenReads \X TokenReads : r[1].address # r[2].address}

\* the sqrtPriceX96 of slot0(): 2^96, 2^95, 3 * 2^95 and
\* 79623317895830914510639640423
SqrtPrices ==
    {Q96, BigPow2(95), BigMulSmall(BigPow2(95), 3),
     <<423, 3964, 5106, 914, 9583, 3178, 9623, 7>>}

\* the default of lines 1018-1019, 1698-1699
DefaultDecimals == 18

\* lines 1016-1019 of get_detailed_pool_data: a call on a token handle is
\* not guarded
DetailedSymbol(t) == IF GetContract(t.handle) THEN t.symbol ELSE <<"Unknown">>
DetailedDecimals(t) ==
    IF GetContract(t.handle) THEN t.decimals ELSE <<DefaultDecimals>>

\* lines 1694-1730 of get_pool_details_by_address: the symbol of the table,
\* else symbol() in a try; the decimals of TOKEN_INFO, else decimals() in a
\* try, else 18
ByAddressSymbol(t) ==
    LET known == GetTokenByAddress(t.address) IN
    IF known # <<>> THEN known
    ELSE IF GetContract(t.handle) /\ t.symbol # <<>> THEN t.symbol
    ELSE <<"Unknown">>

ByAddressDecimals(t) ==
    LET known == GetTokenByAddress(t.address) IN
    IF known # <<>> /\ InTokenInfo(known[1]) THEN TokenInfoDecimals(known[1])
    ELSE IF GetContract(t.handle) /\ t.decimals # <<>> THEN t.decimals[1]
    ELSE DefaultDecimals

\* line 305 of get_pool_info: price = (sqrt_price_x96 / (2**96))**2
PriceRaw(sqrt_price_x96) ==
    LET x == DoubleDivPow2(sqrt_price_x96, 96) IN DoubleMul(x, x)

\* the prices of the three operations over the pool states and decimals of
\* the model, each computed once
PoolStates == SqrtPrices \X {6, 18} \X {6, 18}
DetailedPrices == [x \in PoolStates |-> PriceDetailed(x[1], x[2], x[3])] @@ <<>>
\* the pools create_pool initialises at the prices of the model, with tokens
\* of equal decimals
InitializedSqrtPrices == UNION {SqrtPriceTable[x] : x \in RoundTripPrices}
InitializedStates == {<<x, d, d>> : x \in InitializedSqrtPrices, d \in {6, 18}}
ByAddressPrices ==
    [x \in PoolStates |->
        CalculatePriceFromSqrtPriceX96(x[1], x[2], x[3])] @@ <<>>
InitializedPrices ==
    [x \in InitializedStates |->
        CalculatePriceFromSqrtPriceX96(x[1], x[2], x[3])] @@ <<>>
RawPrices == [s \in SqrtPrices |-> PriceRaw(s)] @@ <<>>

\* get_detailed_pool_data, lines 997-1067
GetDetailedPoolData(p) ==
    /\ Request(p, "get_detailed_pool_data")
    /\ \E handle \in BOOLEAN :
        IF ~GetContract(handle)
            THEN /\ UNCHANGED loc
                 /\ Answer(p, "error", "Failed to get contract instance for pool")
        ELSE \/ \* a call on the pool raises
                /\ UNCHANGED loc
                /\ Answer(p, "error", "Error getting detailed pool data")
             \/ \E s \in SqrtPrices, r \in PoolTokenReads :
                  LET symbols == <<DetailedSymbol(r[1]), DetailedSymbol(r[2])>>
                      decs == <<DetailedDecimals(r[1]), DetailedDecimals(r[2])>>
                  IN  IF <<>> \in {symbols[1], symbols[2], decs[1], decs[2]}
                        THEN \* symbol() or decimals() raises
                             /\ loc' = [loc EXCEPT ![p].reads = r]
                             /\ Answer(p, "error", "Error getting detailed pool data")
                        ELSE /\ loc' = [loc EXCEPT
                                   ![p].reads = r,
                                   ![p].sqrtPriceX96 = <<s>>,
                                   ![p].symbols = <<symbols[1][1], symbols[2][1]>>,
                                   ![p].decimals = <<decs[1][1], decs[2][1]>>,
                                   ![p].price =
                                      <<DetailedPrices[<<s, decs[1][1], decs[2][1]>>]>>]
                             /\ Answer(p, "success", "")

\* get_pool_details_by_address, lines 1665-1787: no dictionary it returns
\* has a "status" key
PoolDetailsByAddress(p, sqrtPrices, reads, prices) ==
    /\ Request(p, "get_pool_details_by_address")
    /\ \E valid \in BOOLEAN, handle \in BOOLEAN :
        IF ~IsAddress(<<valid>>, 1)
            THEN /\ UNCHANGED loc
                 /\ Answer(p, "absent", "Invalid pool address format")
        ELSE IF ~GetContract(handle)
            THEN /\ UNCHANGED loc
                 /\ Answer(p, "absent", "Could not get contract instance for pool")
        ELSE \/ \* a call on the pool raises
                /\ UNCHANGED loc
                /\ Answer(p, "absent", "Failed to get pool details")
             \/ \E s \in sqrtPrices, r \in reads :
                  LET decs == <<ByAddressDecimals(r[1]), ByAddressDecimals(r[2])>>
                  IN  /\ loc' = [loc EXCEPT
                            ![p].reads = r,
                            ![p].sqrtPriceX96 = <<s>>,
                            ![p].symbols = <<ByAddressSymbol(r[1])[1],
                                             ByAddressSymbol(r[2])[1]>>,
                            ![p].decimals = decs,
                            ![p].price =
                               <<prices[<<s, decs[1], decs[2]>>]>>]
                      /\ Answer(p, "absent", "")

GetPoolDetailsByAddress(p) ==
    PoolDetailsByAddress(p, SqrtPrices, PoolTokenReads, ByAddressPrices)

\* get_pool_info, lines 254-335
GetPoolInfo(p) ==
    /\ Request(p, "get_pool_info")
    /\ \E tokens \in BOOLEAN \X BOOLEAN, factory \in BOOLEAN, handle \in BOOLEAN :
        IF ~IsAddress(tokens, 1)
            THEN UNCHANGED loc /\ Answer(p, "error", "Invalid token0 address")
        ELSE IF ~IsAddress(tokens, 2)
            THEN UNCHANGED loc /\ Answer(p, "error", "Invalid token1 address")
        ELSE IF ~GetContract(factory)
            THEN UNCHANGED loc /\ Answer(p, "error", "Failed to get contract instance")
        ELSE \/ \* getPool raises
                UNCHANGED loc /\ Answer(p, "error", "Error getting pool info")
             \/ /\ GetPool(p)
                /\ PoolIsZeroAddress
                /\ Answer(p, "error", "Pool does not exist")
             \/ /\ ~PoolIsZeroAddress
                /\ IF ~GetContract(handle)
                     THEN GetPool(p) /\ Answer(p, "partial", "")
                     ELSE \/ \* a call on the pool raises
                             GetPool(p) /\ Answer(p, "error", "Error getting pool info")
                          \/ \E s \in SqrtPrices :
                               /\ loc' = [loc EXCEPT
                                     ![p].pools = Append(@, pool),
                                     ![p].sqrtPriceX96 = <<s>>,
                                     ![p].price = <<RawPrices[s]>>]
                               /\ Answer(p, "success", "")

\* the transactions the node knows: those that were submitted
Known == {x \in Procs \X (1..4) : x[2] \in OpTxs(x[1]) /\ txs[x[1]][x[2]].sends >= 1}

\* ethereum.py get_transaction_status, lines 331-405: the "status" of the
\* dictionary is "confirmed", "failed" or "pending"
GetTransactionStatus(p) ==
    /\ Request(p, "get_transaction_status")
    /\ UNCHANGED loc
    /\ IF NotConnected
         THEN Answer(p, "error", "Failed to connect to Ethereum node")
         ELSE \/ \* the hash of no transaction
                 Answer(p, "error", "Error retrieving transaction")
              \/ \E x \in Known :
                   LET t == txs[x[1]][x[2]] IN
                   \/ /\ t.st = "mined"
                      /\ Answer(p, IF t.status = 1 THEN "confirmed" ELSE "failed", "")
                   \/ \* no receipt yet, or get_transaction_receipt raises
                      Answer(p, "pending", "")
                   \/ Answer(p, "error", "Error checking transaction status")

(* ------------- the PoA middleware and the raw transaction ------------- *)
\* web3.middleware_onion holds an element at most once (web3's
\* NamedElementOnion): add raises ValueError for an element that is already
\* in it, inject(element, layer=0) adds at the front and raises the same
\* error, and inject without a layer raises TypeError.
DuplicateError == "You can't add the same un-named instance twice"
LayerError == "The layer for insertion must be an int."
MissingRawError == "Cannot find raw transaction data in signed transaction"
AttributeError == "object has no attribute 'raw_transaction'"

\* ExtraDataToPOAMiddleware not in web3.middleware_onion
NotInOnion_always == TRUE
NotInOnion == onion = 0

\* the attribute names of the object sign_transaction returns
RawFields == {"raw_transaction", "rawTransaction"}
SignedShapes == SUBSET RawFields

\* sparkdex.py, _sign_and_send_transaction and the inline submission of
\* swap_tokens: the attribute sent, <<>> when the else branch raises
SparkdexRawField(signed) ==
    IF "raw_transaction" \in signed THEN <<"raw_transaction">>
    ELSE IF "rawTransaction" \in signed THEN <<"rawTransaction">>
    ELSE <<>>

\* ethereum.py send_transaction: the attribute sent, <<>> when reading
\* signed_tx.raw_transaction raises AttributeError
EthereumRawField(signed) ==
    IF "rawTransaction" \in signed THEN <<"rawTransaction">>
    ELSE IF "raw_transaction" \in signed THEN <<"raw_transaction">>
    ELSE <<>>

SubmissionPaths == {"_ensure_poa_middleware", "_sign_and_send_transaction",
                    "swap_tokens", "send_transaction"}

RawField(path, signed) ==
    IF path = "send_transaction" THEN EthereumRawField(signed)
    ELSE SparkdexRawField(signed)

\* One statement of a call: the process moves to label, nothing else changes.
Statement(p, label) ==
    /\ Goto(p, label)
    /\ UNCHANGED <<op, loc, chainVars>>

\* inject or add succeeded: the middleware is registered once more
Registered(p, label) ==
    /\ onion' = onion + 1
    /\ Goto(p, label)
    /\ UNCHANGED <<op, loc, txs, chainNonce, allowance, pool, quoter,
                   connected, clock, slot0, decimals, abis, connects>>

\* The call begins; registered keeps whether the middleware was in the onion
\* when it began.  swap_tokens is taken from line 536, send_transaction from
\* its sign_transaction call.
SubmitCall(p) ==
    \E path \in SubmissionPaths :
        /\ Request(p, path)
        /\ loc' = [loc EXCEPT ![p].registered = onion]
        /\ Goto(p, CASE path = "send_transaction" -> "sign"
                     [] path = "_sign_and_send_transaction" -> "inline_check"
                     [] OTHER -> "ensure_check")

\* _ensure_poa_middleware returned value: swap_tokens drops it and goes on to
\* its inline submission
EnsureReturn(p, value) ==
    IF op[p].kind = "swap_tokens"
    THEN Statement(p, "inline_check")
    ELSE /\ Answer(p, value, "")
         /\ UNCHANGED <<op, loc, chainVars>>

\* _ensure_poa_middleware, lines 1897-1901
EnsureCheck(p) ==
    /\ pc[p] = "ensure_check"
    /\ IF NotInOnion THEN Statement(p, "ensure_inject")
       ELSE EnsureReturn(p, "True")

EnsureInject(p) ==
    /\ pc[p] = "ensure_inject"
    /\ IF onion = 0
       THEN Registered(p, "ensure_return")
       ELSE Statement(p, "ensure_add")

\* return True of lines 1901, 1906 and 1910
EnsureReturnTrue(p) ==
    /\ pc[p] = "ensure_return"
    /\ EnsureReturn(p, "True")

\* lines 1902-1906: the fallback add
EnsureAdd(p) ==
    /\ pc[p] = "ensure_add"
    /\ IF onion = 0
       THEN Registered(p, "ensure_return")
       ELSE Statement(p, "ensure_inject_again")

\* lines 1907-1914: inject without a layer raises, the function returns False
EnsureInjectAgain(p) ==
    /\ pc[p] = "ensure_inject_again"
    /\ EnsureReturn(p, "False")

\* lines 1824-1828 and 770-774
InlineCheck(p) ==
    /\ pc[p] = "inline_check"
    /\ Statement(p, IF NotInOnion THEN "inline_inject" ELSE "sign")

InlineInject(p) ==
    /\ pc[p] = "inline_inject"
    /\ IF onion = 0
       THEN Registered(p, "sign")
       ELSE /\ Fail(p, DuplicateError, {})
            /\ UNCHANGED <<op, loc, chainVars>>

\* sign_transaction, lines 1834, 781 and ethereum.py 290
SignTransaction(p) ==
    /\ pc[p] = "sign"
    /\ \E signed \in SignedShapes :
          loc' = [loc EXCEPT ![p].signed = signed]
    /\ Goto(p, "send_raw")
    /\ UNCHANGED <<op, chainVars>>

\* send_raw_transaction of the attribute chosen, lines 1840-1849, 786-795 and
\* ethereum.py 293-297
SendRaw(p) ==
    LET field == RawField(op[p].kind, loc[p].signed) IN
    /\ pc[p] = "send_raw"
    /\ loc' = [loc EXCEPT ![p].sent = field]
    /\ IF field # <<>> THEN Succeed(p, {})
       ELSE IF op[p].kind = "send_transaction" THEN Fail(p, AttributeError, {})
       ELSE Fail(p, MissingRawError, {})
    /\ UNCHANGED <<op, chainVars>>

(* --------------------------- the connection --------------------------- *)
\* connection.py: initialize_evm_connection installs a new connection
\* (lines 180-184, route /api/evm/connect) and get_connection_status re-reads
\* is_connected() when its refresh raised (lines 98-104); either can change
\* the connected flag while requests are served.
ConnectionChanges ==
    /\ connected' = ~connected
    /\ UNCHANGED <<procVars, txs, chainNonce, allowance, pool, quoter, clock,
                   slot0, decimals, abis, onion, connects>>

\* the EVMConnection objects a run makes at most
MaxConnects == 3

\* line 98: if self.connected and self.web3
Refreshes_always == TRUE
Refreshes == connected

\* initialize_evm_connection, lines 180-184: a new EVMConnection, whose
\* __init__ runs connect() (line 54); connect() leaves connected True when
\* is_connected() answers True (lines 63-64) and False otherwise (88, 91).
\* The object has a web3 of its own, to which no middleware was added.
InitializeEvmConnection ==
    /\ connects < MaxConnects
    /\ connects' = connects + 1
    /\ connected' \in BOOLEAN
    /\ onion' = 0
    /\ UNCHANGED <<procVars, txs, chainNonce, allowance, pool, quoter, clock,
                   slot0, decimals, abis>>

\* get_connection_status, lines 95-109: a refresh that raises sets connected
\* to what is_connected() answers
GetConnectionStatus ==
    /\ IF Refreshes THEN connected' \in BOOLEAN ELSE connected' = connected
    /\ UNCHANGED <<procVars, txs, chainNonce, allowance, pool, quoter, clock,
                   slot0, decimals, abis, onion, connects>>

\* get_evm_connection, lines 186-191: an instance is made only when there is
\* none
GetEvmConnection ==
    IF connects = 0 THEN InitializeEvmConnection ELSE UNCHANGED vars

(* --------------------------- specification ---------------------------- *)
InitAllowances == {<<>>, <<1>>}

\* the pools of the quoter: fee tiers 100, 500, 3000, 10000
FeeTierSet == {FeeTiers[i] : i \in DOMAIN FeeTiers}

\* a quoter that answers every tier with amount a
QuoterOf(ok, a) == [ok |-> ok, out |-> [f \in FeeTierSet |-> a]]

\* a quoter whose quote grows with the fee tier
QuoterByTier(ok) == [ok |-> ok, out |-> [f \in FeeTierSet |-> BigFromInt(f)]]

InitSequencer ==
    /\ pc = [p \in Procs |-> "idle"]
    /\ hp = [p \in Procs |-> "none"]
    /\ op = [p \in Procs |-> NoOp]
    /\ loc = [p \in Procs |-> NoLoc]
    /\ result = [p \in Procs |-> NoResult]
    /\ txs = [p \in Procs |-> <<>>]
    /\ chainNonce = 0
    /\ \E a \in InitAllowances : allowance = [k \in AllowKeys |-> a]
    /\ pool = 0
    /\ connected \in BOOLEAN
    /\ connects = 1

\* a host whose clock agrees with the chain, a pool at tick 103 of spacing
\* 60, tokens whose base unit is the token
InitEnv ==
    /\ clock = 0
    /\ slot0 = [tick |-> 103, spacing |-> 60]
    /\ decimals = 0
    /\ abis = AbiStore([f \in AbiFiles |-> "valid"])
    /\ onion = 0

Init ==
    /\ InitSequencer
    /\ InitEnv
    /\ quoter = QuoterOf(FeeTierSet, <<1000>>)

\* Requests are served one after another.
Next ==
    \/ Mine
    \/ \E p \in Procs :
        \/ Return(p)
        \/ SignAndSend(p)
        \/ HelperWait(p)
        \/ Free(p) /\ StartSwap(p)
        \/ Free(p) /\ StartAddLiquidity(p)
        \/ Free(p) /\ StartCreatePool(p)
        \/ SwapStep(p)
        \/ AddLiquidityStep(p)
        \/ CreatePoolStep(p)

Spec == Init /\ [][Next]_vars

\* Swap requests are served concurrently (the threaded server).
NextConc ==
    \/ Mine
    \/ \E p \in Procs :
        \/ Return(p)
        \/ SignAndSend(p)
        \/ HelperWait(p)
        \/ StartSwap(p)
        \/ SwapStep(p)

SpecConc == Init /\ [][NextConc]_vars

\* Price requests against every quoter: any set of tiers may answer.
InitQuote ==
    /\ InitSequencer
    /\ InitEnv
    /\ \E ok \in SUBSET FeeTierSet :
          quoter \in {QuoterByTier(ok), QuoterOf(ok, <<1000>>)}

NextQuote ==
    \E p \in Procs :
        \/ Return(p)
        \/ StartPrice(p)
        \/ PriceProbe(p)

SpecQuote == InitQuote /\ [][NextQuote]_vars

\* A single swap request, over quoted amounts and slippages of every size.
\* The slippages are binary fractions, which a float holds exactly.
MathAmountOuts ==
    {<<>>, <<1>>, <<199>>, <<200>>, <<1000>>, <<1, 1>>,
     <<0, 0, 0, 0, 995>>,              \* 9_950_000_000_000_000_000
     <<992, 5474, 1992, 9007>>,        \* 2^53
     <<995, 5474, 1992, 9007>>,        \* 2^53 + 3
     <<1, 0, 0, 0, 100>>,              \* 10^18 + 1
     <<7, 0, 0, 0, 0, 0, 1>>}          \* 10^24 + 7

MathSlippages ==
    {[m |-> <<>>, e |-> 0], DefaultSlippage, [m |-> <<1>>, e |-> 0],
     [m |-> <<3>>, e |-> -2], [m |-> <<50>>, e |-> 0], [m |-> <<100>>, e |-> 0]}

InitMath ==
    /\ InitSequencer
    /\ InitEnv
    /\ \E a \in MathAmountOuts : quoter = QuoterOf(FeeTierSet, a)

NextMath ==
    \/ Mine
    \/ \E p \in {1} :
        \/ Return(p)
        \/ SignAndSend(p)
        \/ HelperWait(p)
        \/ StartSwapWith(p, MathSlippages)
        \/ SwapStep(p)

SpecMath == InitMath /\ [][NextMath]_vars

\* add_liquidity against pools at any tick, with and without tick bounds
\* supplied by the caller.
MaxTick == 25
CurrentTicks == (-MaxTick)..MaxTick \cup {103}
TickSpacings == {0, 1, 7, 60}
TickArgs == {NoTicks, <<<<-5>>, <<>>>>, <<<<>>, <<5>>>>, <<<<-5>>, <<5>>>>}
TickRequests == {r \in AddLiquidityRequests : r.amount = <<<<"1">>, <<"1">>>>}

InitTicks ==
    /\ InitSequencer
    /\ clock = 0
    /\ decimals = 0
    /\ slot0 \in [tick : CurrentTicks, spacing : TickSpacings]
    /\ abis = AbiStore([f \in AbiFiles |-> "valid"])
    /\ onion = 0
    /\ quoter = QuoterOf(FeeTierSet, <<1000>>)

NextTicks ==
    \/ Mine
    \/ \E p \in {1} :
        \/ Return(p)
        \/ SignAndSend(p)
        \/ HelperWait(p)
        \/ StartAddLiquidityWith(p, TickRequests, TickArgs)
        \/ AddLiquidityStep(p)

SpecTicks == InitTicks /\ [][NextTicks]_vars

\* The thread takes another call; a thread whose operation built a
\* transaction takes none, which bounds the transactions of a run.
Again(p) == txs[p] = <<>> /\ NextCall(p)

\* Requests of the public operations, one after another, on a connection
\* whose status is asked for and which is initialized again at any time.
NextReconnect ==
    \/ Mine
    \/ InitializeEvmConnection
    \/ GetConnectionStatus
    \/ GetEvmConnection
    \/ \E p \in {1} :
        \/ Again(p)
        \/ SignAndSend(p)
        \/ HelperWait(p)
        \/ StartSwap(p)
        \/ StartPrice(p)
        \/ StartSendTransaction(p)
        \/ StartGetEthBalance(p)
        \/ StartGetTokenInfo(p)
        \/ SwapStep(p)
        \/ PriceProbe(p)
        \/ SendTransactionStep(p)
        \/ GetEthBalanceCall(p)
        \/ GetTokenInfoCalls(p)

SpecReconnect == Init /\ [][NextReconnect]_vars

\* Two threads call add_token_to_abi_mapping while _get_contract and
\* load_abi read the table.
NextMapping ==
    \/ GetContractCall
    \/ LoadAbiCall
    \/ \E p \in Procs :
        \/ AddTokenCall(p)
        \/ MappingCheck(p)
        \/ MappingStore(p)

SpecMapping == Init /\ [][NextMapping]_vars

\* Two threads call _ensure_poa_middleware, _sign_and_send_transaction,
\* swap_tokens and send_transaction on the one connection, statement by
\* statement.
NextSubmit ==
    \E p \in Procs :
        \/ SubmitCall(p)
        \/ EnsureCheck(p)
        \/ EnsureInject(p)
        \/ EnsureReturnTrue(p)
        \/ EnsureAdd(p)
        \/ EnsureInjectAgain(p)
        \/ InlineCheck(p)
        \/ InlineInject(p)
        \/ SignTransaction(p)
        \/ SendRaw(p)
        \/ NextCall(p)

SpecSubmit == Init /\ [][NextSubmit]_vars

\* One request of any public operation, on a connection that comes and
\* goes.
NextConn ==
    \/ Mine
    \/ ConnectionChanges
    \/ \E p \in {1} :
        \/ Return(p)
        \/ SignAndSend(p)
        \/ HelperWait(p)
        \/ StartSwap(p)
        \/ StartAddLiquidity(p)
        \/ StartCreatePool(p)
        \/ StartPrice(p)
        \/ StartSendTransaction(p)
        \/ StartGetEthBalance(p)
        \/ StartGetTokenInfo(p)
        \/ SwapStep(p)
        \/ AddLiquidityStep(p)
        \/ CreatePoolStep(p)
        \/ PriceProbe(p)
        \/ SendTransactionStep(p)
        \/ GetEthBalanceCall(p)
        \/ GetTokenInfoCalls(p)

SpecConn == Init /\ [][NextConn]_vars

\* One swap or add_liquidity request on a host whose clock is behind, with
\* or ahead of the latest block.
ClockOffsets == {-30, 0, 5}

InitClock ==
    /\ InitSequencer
    /\ clock \in ClockOffsets
    /\ slot0 = [tick |-> 103, spacing |-> 60]
    /\ decimals = 0
    /\ abis = AbiStore([f \in AbiFiles |-> "valid"])
    /\ onion = 0
    /\ quoter = QuoterOf(FeeTierSet, <<1000>>)

NextClock ==
    \/ Mine
    \/ \E p \in {1} :
        \/ Return(p)
        \/ SignAndSend(p)
        \/ HelperWait(p)
        \/ StartSwap(p)
        \/ StartAddLiquidity(p)
        \/ SwapStep(p)
        \/ AddLiquidityStep(p)

SpecClock == InitClock /\ [][NextClock]_vars

\* Calls of _get_contract, load_abi and add_token_to_abi_mapping against
\* every content of the ABI directory.
InitAbi ==
    /\ InitSequencer
    /\ clock = 0
    /\ slot0 = [tick |-> 103, spacing |-> 60]
    /\ decimals = 0
    /\ quoter = QuoterOf(FeeTierSet, <<1000>>)
    /\ \E files \in [AbiFiles -> FileStates] : abis = AbiStore(files)
    /\ onion = 0

NextAbi ==
    \/ GetContractCall
    \/ LoadAbiCall
    \/ AddTokenToAbiMapping

SpecAbi == InitAbi /\ [][NextAbi]_vars

\* One request of create_pool at any initial price, of add_liquidity or of a
\* pool read that takes the state of the pool from its calls, while
\* get_pool_info and get_transaction_status read the chain.
StartCreatePoolWith(p, prices) ==
    \E req \in CreatePoolRequests, price \in prices, env \in CallOutcomes :
        Begin(p, [req EXCEPT !.initialPrice = price], CreatePoolPreamble(req, env))

NextPool ==
    \/ Mine
    \/ \E p \in {1} :
        \/ Return(p)
        \/ SignAndSend(p)
        \/ HelperWait(p)
        \/ StartCreatePoolWith(p, InitialPrices)
        \/ StartAddLiquidityWith(p, TickRequests, {NoTicks})
        \/ CreatePoolStep(p)
        \/ AddLiquidityStep(p)
        \/ GetDetailedPoolData(p)
        \/ GetPoolDetailsByAddress(p)
    \/ \E p \in {2} :
        \/ Return(p)
        \/ GetPoolInfo(p)
        \/ GetTransactionStatus(p)

SpecPool == Init /\ [][NextPool]_vars

\* create_pool at prices between 1e-12 and 1e12 on process 1, while
\* get_pool_details_by_address on process 2 reads the pool at the price a
\* mined initialize transaction gave it; the tokens have equal decimals.
PoolSqrtPrices ==
    {txs[q][k].amt[1] : <<q, k>> \in
        {x \in Procs \X (1..4) :
            /\ x[2] \in OpTxsOfKind(x[1], "initialize")
            /\ txs[x[1]][x[2]].st = "mined"
            /\ txs[x[1]][x[2]].status = 1}}
EqualDecimalsReads ==
    {r \in PoolTokenReads :
        /\ ByAddressDecimals(r[1]) = ByAddressDecimals(r[2])
        /\ r[1].symbol # <<>> /\ r[2].symbol # <<>>}

NextRound ==
    \/ Mine
    \/ \E p \in {1} :
        \/ Return(p)
        \/ SignAndSend(p)
        \/ HelperWait(p)
        \/ StartCreatePoolWith(p, RoundTripPrices)
        \/ CreatePoolStep(p)
    \/ \E p \in {2} :
        \/ Return(p)
        \/ PoolDetailsByAddress(p, PoolSqrtPrices, EqualDecimalsReads,
                                InitializedPrices)

SpecRound == Init /\ [][NextRound]_vars

(* ------------------------------- claims ------------------------------- *)
Swapping(p) == op[p].kind = "swap"
AllowanceRead(p) == loc[p].allow[1] # Unread

\* C1: in a swap whose allowance read is below the amount, the swap
\* transaction is built only after exactly one approval transaction was
\* built, submitted once and its receipt observed; no swap builds two
\* approvals.
C1_ApprovalBeforeSwap ==
    \A p \in Procs : Swapping(p) =>
        /\ Cardinality(OpTxsOfKind(p, "approve")) <= 1
        /\ \A k \in OpTxsOfKind(p, "swap") :
              BigLess(loc[p].allow[1], op[p].amt[1]) =>
                 \E a \in OpTxsOfKind(p, "approve") :
                    /\ a < k
                    /\ txs[p][a].sends = 1
                    /\ txs[p][a].st = "mined"
                    /\ txs[p][a].seen

C1_Witness ==
    \E p \in Procs :
        /\ Swapping(p)
        /\ AllowanceRead(p) /\ BigLess(loc[p].allow[1], op[p].amt[1])
        /\ OpTxsOfKind(p, "swap") # {}
        /\ OpTxsOfKind(p, "approve") # {}

\* C2: in a swap whose allowance read is at least the amount, no approval
\* transaction exists at any point of the swap.
C2_NoApprovalWhenSufficient ==
    \A p \in Procs :
        (Swapping(p) /\ AllowanceRead(p) /\ ~BigLess(loc[p].allow[1], op[p].amt[1]))
            => OpTxsOfKind(p, "approve") = {}

C2_Witness ==
    \E p \in Procs :
        /\ Swapping(p) /\ AllowanceRead(p)
        /\ loc[p].allow[1] = op[p].amt[1]
        /\ pc[p] = "done" /\ result[p].status = "success"

\* C3: once the approval of a swap is mined with a status other than
\* success, that swap never calls the quoter, never builds a swap
\* transaction, and its result is an error.
C3_FailedApprovalAborts ==
    \A p \in Procs : Swapping(p) =>
        \A a \in OpTxsOfKind(p, "approve") :
            (txs[p][a].st = "mined" /\ txs[p][a].status # 1) =>
                /\ loc[p].probed = <<>>
                /\ OpTxsOfKind(p, "swap") = {}
                /\ pc[p] = "done" => result[p].status = "error"

C3_Witness ==
    \E p \in Procs :
        /\ Swapping(p) /\ pc[p] = "done"
        /\ result[p].error = "Approval transaction failed"
        /\ \E a \in OpTxsOfKind(p, "approve") : txs[p][a].status = 0

\* C4: an operation returns status 'success' only if the receipt of its
\* final transaction (swap, mint, initialize) has success status.
C4_SuccessOnlyIfFinalReceiptOk ==
    \A p \in Procs :
        (pc[p] = "done" /\ result[p].status = "success") =>
            \A h \in result[p].hashes : txs[p][h].status = 1

\* the transactions of the operation of p that were submitted and whose
\* hash the operation holds
SubmittedTxs(p) == {k \in OpTxs(p) : txs[p][k].hash}

\* C5: an error result returned after a transaction of the operation was
\* submitted carries the hash of every submitted transaction.
C5_ErrorCarriesSubmittedHashes ==
    \A p \in Procs :
        (pc[p] = "done" /\ result[p].status = "error") =>
            SubmittedTxs(p) \subseteq result[p].hashes

\* C6: every transaction is given to send_raw_transaction at most once; an
\* operation never builds the same transaction twice; a refused submission
\* or an unobserved receipt ends the operation with an error and is never
\* followed by another transaction of the operation.
C6_NoResubmission ==
    \A p \in Procs : \A k \in OpTxs(p) :
        LET t == txs[p][k] IN
        /\ t.sends <= 1
        /\ (t.sends = 1 /\ t.st = "built") =>
              /\ k = Len(txs[p])
              /\ pc[p] \in {"done", "returned"}
              /\ pc[p] = "done" => result[p].status = "error"
        /\ \A j \in OpTxs(p) :
              (txs[p][j].kind = t.kind /\ txs[p][j].key = t.key) => j = k
        /\ k < Len(txs[p]) => t.seen

C6_Witness ==
    \E p \in Procs : \E k \in OpTxs(p) :
        /\ k > 1
        /\ txs[p][k].sends = 1 /\ txs[p][k].st = "built"
        /\ pc[p] = "done" /\ result[p].status = "error"

Running(p) == pc[p] \notin {"idle", "done", "returned"}
\* submitted and not mined, or built and not yet submitted
InFlightOrBuilding(t) == t.st = "pending" \/ (t.st = "built" /\ t.sends = 0)

\* C7: while two operations of the signer run concurrently, no two of their
\* transactions that are in flight or being built carry the same nonce.
C7_NoSharedNonce ==
    \A p \in Procs, q \in Procs :
        (p # q /\ Running(p) /\ Running(q)) =>
            \A k \in OpTxs(p), j \in OpTxs(q) :
                (InFlightOrBuilding(txs[p][k]) /\ InFlightOrBuilding(txs[q][j]))
                    => txs[p][k].nonce # txs[q][j].nonce

\* C8: within one operation a transaction is built (and its nonce read) only
\* after the receipt of the operation's previous transaction was observed:
\* every transaction but the last is mined and seen, nonces increase, and at
\* most one transaction of the operation is in flight.
C8_OneInFlightPerOperation ==
    \A p \in Procs :
        /\ \A k \in OpTxs(p) : k < Len(txs[p]) =>
              /\ txs[p][k].st = "mined"
              /\ txs[p][k].seen
              /\ txs[p][k].nonce < txs[p][k + 1].nonce
        /\ Cardinality({k \in OpTxs(p) : txs[p][k].st = "pending"}) <= 1

C8_Witness ==
    \E p \in Procs :
        /\ Len(txs[p]) >= 3
        /\ txs[p][Len(txs[p])].st = "pending"

\* C9: the amountOutMinimum of every built swap transaction is
\* floor(amountOut * (1 - slippage / 100)) of the quoted amountOut and the
\* slippage of the swap; for amountOut 9_950_000_000_000_000_000 and slippage
\* 0.5 it is 9_900_250_000_000_000_000.
C9_MinAmountOutIsFloor ==
    \A p \in Procs : Swapping(p) =>
        \A k \in OpTxsOfKind(p, "swap") :
            /\ txs[p][k].minOut =
                  FloorOfProduct(quoter.out[SwapFee], op[p].slippage)
            /\ (quoter.out[SwapFee] = <<0, 0, 0, 0, 995>>
                  /\ op[p].slippage = DefaultSlippage)
                    => txs[p][k].minOut = <<0, 0, 0, 250, 990>>

Pricing(p) == op[p].kind = "price"

\* C10: get_token_price calls the quoter with the fee tiers 100, 500, 3000,
\* 10000 in this order, stops at the first call that succeeds and returns
\* that tier and its quote: no call follows a successful one, the returned
\* tier is the lowest one the quoter answers, and a quoter that answers only
\* at 3000 yields the quote of tier 3000.
C10_FirstSuccessfulTierWins ==
    \A p \in Procs : Pricing(p) =>
        LET probed == loc[p].probed
            n == Len(probed)
        IN  /\ n <= 4 /\ probed = SubSeq(<<100, 500, 3000, 10000>>, 1, n)
            /\ \A i \in 1..(n - 1) : probed[i] \notin quoter.ok
            /\ (n > 0 /\ probed[n] \in quoter.ok) =>
                  /\ pc[p] = "done"
                  /\ result[p].status = "success"
                  /\ loc[p].feeTier = probed[n]
                  /\ loc[p].amountOut = quoter.out[probed[n]]
            /\ (pc[p] = "done" /\ result[p].status = "success") =>
                  /\ loc[p].feeTier \in quoter.ok
                  /\ \A f \in quoter.ok : loc[p].feeTier <= f
            /\ (pc[p] = "done" /\ result[p].error = "Could not get price") =>
                  quoter.ok = {} /\ n = 4

C10_Witness ==
    \E p \in Procs :
        /\ Pricing(p) /\ pc[p] = "done"
        /\ quoter.ok = {3000}
        /\ loc[p].probed = <<100, 500, 3000>>
        /\ loc[p].feeTier = 3000
        /\ loc[p].amountOut = <<3000>>

\* C11: in get_token_price a fee tier whose quoter call fails does not end
\* the operation, the next tier is tried; the error "Could not get price" is
\* returned exactly when the calls of all four tiers failed.
C11_TierFailureIsSwallowed ==
    \A p \in Procs : Pricing(p) =>
        LET probed == loc[p].probed
            n == Len(probed)
            allFailed == n = 4 /\ \A i \in 1..4 : probed[i] \notin quoter.ok
        IN  /\ (n \in 1..3 /\ probed[n] \notin quoter.ok) => pc[p] = "gp_probe"
            /\ (pc[p] = "done" /\ result[p].error = "Could not get price")
                  => allFailed /\ result[p].status = "error"
            /\ (pc[p] = "done" /\ allFailed)
                  => result[p].error = "Could not get price"
            /\ (pc[p] = "done" /\ n > 0 /\ ~allFailed)
                  => result[p].status = "success"

C11_Witness ==
    \E p \in Procs :
        /\ Pricing(p) /\ pc[p] = "done"
        /\ loc[p].probed = <<100, 500, 3000, 10000>>
        /\ quoter.ok = {10000}
        /\ result[p].status = "success"

\* the operation of p derived both tick bounds and holds them
AddingLiquidity(p) == op[p].kind = "add_liquidity"
TicksDerived(p) ==
    AddingLiquidity(p) /\ op[p].ticks = NoTicks /\ loc[p].ticks # <<>>
IsMultiple(n, d) == \E k \in (-1000)..1000 : n = k * d

\* C12: when add_liquidity derives both tick bounds, for every current
\* tick, negative ones included, and every tick spacing above 0, tickLower
\* is the greatest multiple of the spacing that is at most
\* currentTick - 10 * spacing and tickUpper the greatest multiple that is at
\* most currentTick + 10 * spacing.
C12_TickBoundsAreGreatestMultiples ==
    \A p \in Procs : TicksDerived(p) =>
        LET lower == loc[p].ticks[1]
            upper == loc[p].ticks[2]
            s == slot0.spacing
        IN /\ s > 0
           /\ IsMultiple(lower, s) /\ IsMultiple(upper, s)
           /\ lower <= slot0.tick - 10 * s /\ slot0.tick - 10 * s < lower + s
           /\ upper <= slot0.tick + 10 * s /\ slot0.tick + 10 * s < upper + s

\* a pool at a negative tick that is no multiple of its spacing, and a mint
\* transaction built with the derived bounds
C12_Witness ==
    \E p \in Procs :
        /\ TicksDerived(p)
        /\ slot0 = [tick |-> -19, spacing |-> 7]
        /\ loc[p].ticks = <<-91, 49>>
        /\ OpTxsOfKind(p, "mint") # {}

\* C13 as stated: the derived bounds lie at least 10 spacings away from the
\* current tick on either side: tickLower <= currentTick - 10 * spacing and
\* tickUpper >= currentTick + 10 * spacing.
C13_BoundsAtLeastTenSpacingsAway ==
    \A p \in Procs : TicksDerived(p) =>
        /\ loc[p].ticks[1] <= slot0.tick - 10 * slot0.spacing
        /\ loc[p].ticks[2] >= slot0.tick + 10 * slot0.spacing

\* C13 amended: the derived bounds are a window of exactly 20 spacings
\* around the current tick, both snapped downwards: tickLower is at most
\* currentTick - 10 * spacing, tickUpper is at most currentTick + 10 *
\* spacing and above currentTick + 9 * spacing, and tickLower < currentTick
\* < tickUpper.
C13_WindowSnappedDownwards ==
    \A p \in Procs : TicksDerived(p) =>
        LET lower == loc[p].ticks[1]
            upper == loc[p].ticks[2]
            s == slot0.spacing
        IN /\ lower <= slot0.tick - 10 * s
           /\ upper <= slot0.tick + 10 * s
           /\ upper > slot0.tick + 9 * s
           /\ upper - lower = 20 * s
           /\ lower < slot0.tick /\ slot0.tick < upper

\* tick spacing 60 and current tick 103: the bounds are -540 and 660
C13_Witness ==
    \E p \in Procs :
        /\ TicksDerived(p)
        /\ slot0 = [tick |-> 103, spacing |-> 60]
        /\ loc[p].ticks = <<-540, 660>>

\* the operations that send transactions for a pair of tokens
PairOperations == {"swap", "add_liquidity", "create_pool"}
MalformedAddress(p) ==
    op[p].kind \in PairOperations /\ op[p].tokens # WellFormed

\* C14: when either token address given to swap_tokens, add_liquidity or
\* create_pool is not a well-formed address, the operation returns an error
\* before any chain interaction: no signer is resolved, no connection is
\* obtained, no contract handle or call is made, no allowance is read and no
\* transaction is built.
C14_MalformedAddressFailsLocally ==
    \A p \in Procs : MalformedAddress(p) =>
        /\ pc[p] = "done"
        /\ result[p].status = "error"
        /\ result[p].error \in {"Invalid input token address",
                                 "Invalid output token address",
                                 "Invalid token0 address",
                                 "Invalid token1 address"}
        /\ loc[p].did = {}
        /\ loc[p].allow = NoLoc.allow
        /\ txs[p] = <<>>

\* add_liquidity with a malformed second address, on a connected node
C14_Witness ==
    \E p \in Procs :
        /\ op[p].kind = "add_liquidity"
        /\ op[p].tokens = <<TRUE, FALSE>>
        /\ connected
        /\ result[p].error = "Invalid token1 address"

\* swap_tokens was called with well-formed addresses and an amount string
\* that is no number
NonNumericSwap(p) ==
    Swapping(p) /\ op[p].tokens = WellFormed /\ ~IsFloatLiteral(op[p].amount[1])

\* C15: when the amount string given to swap_tokens is not numeric, the
\* swap fails with an error before any chain interaction (no decimals read,
\* no allowance read) and without building or submitting a transaction.
C15_NonNumericAmountFailsLocally ==
    \A p \in Procs : NonNumericSwap(p) =>
        /\ pc[p] = "done"
        /\ result[p].status = "error"
        /\ "decimals" \notin loc[p].did
        /\ ~AllowanceRead(p)
        /\ txs[p] = <<>>

\* swap_tokens was called with well-formed addresses and a decimal amount
\* string, and reached the conversion of the amount
NumericSwap(p) ==
    /\ Swapping(p)
    /\ op[p].tokens = WellFormed
    /\ IsFloatLiteral(op[p].amount[1])
    /\ "decimals" \in loc[p].did

\* C16: for every numeric decimal amount string, fractional ones such as
\* "0.5" included, swap_tokens converts the amount to base units and goes on
\* to the allowance check; the amount is never rejected.
C16_NumericAmountIsAccepted ==
    \A p \in Procs : NumericSwap(p) =>
        /\ result[p].error # "Error swapping tokens"
        /\ pc[p] = "done" => AllowanceRead(p) \/ result[p].error = "Error checking allowance"

\* swap_tokens ended because a contract handle (router, input token or
\* quoter) could not be resolved
HandleUnresolved(p) ==
    Swapping(p) /\ result[p].error = "Failed to get contract instance"

\* C17: if the router, quoter or input-token handle cannot be resolved,
\* swap_tokens fails before the allowance is checked and before any
\* transaction, the approval included, is built or submitted.
C17_UnresolvedHandleFailsBeforeAllowance ==
    \A p \in Procs : HandleUnresolved(p) =>
        /\ ~AllowanceRead(p)
        /\ txs[p] = <<>>

\* the step is the call of a public operation as request p
Called(p) == pc[p] = "idle" /\ pc'[p] # "idle"

\* C18: an operation called while the connection is in the disconnected
\* state (swap_tokens, add_liquidity, create_pool, get_token_price,
\* send_transaction, the read operations) returns an error without a call
\* to the node: no decimals, allowance, quote, nonce or gas-price read, no
\* transaction built or submitted.
C18_DisconnectedFailsWithoutRpc ==
    [][\A p \in Procs : ~connected /\ Called(p) =>
            /\ pc'[p] = "done"
            /\ result'[p].status = "error"
            /\ "decimals" \notin loc'[p].did
            /\ loc'[p].allow = NoLoc.allow
            /\ loc'[p].probed = <<>>
            /\ txs'[p] = <<>>]_vars

\* send_transaction with a usable key and a well-formed recipient, refused
\* on a disconnected node
C18_Witness ==
    \E p \in Procs :
        /\ ~connected
        /\ op[p].kind = "send_transaction"
        /\ op[p].tokens = WellFormed
        /\ loc[p].did = {"account", "connection"}
        /\ result[p].error = "Failed to connect to Ethereum node"

\* the timestamp of the latest block when transaction t was built: the
\* nonce and the block were read from the same chain state
BlockTimestampAtBuild(t) == t.nonce

\* C19: the deadline of the swap transaction built by swap_tokens is the
\* timestamp of the latest chain block plus 1200 seconds, chain time and
\* not the local clock, as the mint deadline of add_liquidity is.
C19_SwapDeadlineFromChainTime ==
    \A p \in Procs : \A k \in OpTxs(p) :
        txs[p][k].kind \in {"swap", "mint"} =>
            txs[p][k].deadline = BlockTimestampAtBuild(txs[p][k]) + 1200

\* before transaction k of request p was built, the receipt of a
\* transaction of p of kind before was observed
Before(p, k, before) ==
    \E j \in 1..(k - 1) : txs[p][j].kind = before /\ txs[p][j].seen

\* C20: a createPool transaction is built only when the pool lookup
\* answered the zero address, and create_pool with an existing pool returns
\* an error and builds nothing; an initialize transaction is built only
\* after the receipt of createPool was observed and a second lookup
\* answered a pool address; in add_liquidity approvals and mint come only
\* after that, or after a first lookup that found the pool.
C20_PoolCreationFollowsLookup ==
    \A p \in Procs : op[p].kind \in {"add_liquidity", "create_pool"} =>
        LET looked == loc[p].pools IN
        /\ \A k \in OpTxsOfKind(p, "createPool") :
              Len(looked) >= 1 /\ looked[1] = 0
        /\ op[p].kind = "create_pool" /\ Len(looked) >= 1 /\ looked[1] # 0 =>
              /\ txs[p] = <<>>
              /\ result[p] = [status |-> "error", error |-> "Pool already exists",
                              hashes |-> {}]
        /\ \A k \in OpTxsOfKind(p, "initialize") :
              /\ Before(p, k, "createPool")
              /\ Len(looked) >= 2 /\ looked[2] # 0
        /\ \A k \in OpTxsOfKind(p, "approve") \cup OpTxsOfKind(p, "mint") :
              /\ Len(looked) >= 1
              /\ looked[1] = 0 => Before(p, k, "initialize")

\* add_liquidity found no pool, created and initialised it and built the
\* mint transaction
C20_Witness ==
    \E p \in Procs :
        /\ AddingLiquidity(p)
        /\ loc[p].pools = <<0, 1>>
        /\ OpTxsOfKind(p, "mint") # {}
        /\ \E k \in OpTxsOfKind(p, "initialize") : txs[p][k].seen

(* ------------------------- add_liquidity approvals -------------------- *)
ApprovalsOf(p, i) ==
    {k \in OpTxsOfKind(p, "approve") : txs[p][k].key = NpmKey(i)}

\* C21: in add_liquidity an approval is built for a token only after that
\* token's allowance was read below its desired amount, it approves the
\* maximum uint256 value, and no token gets two; once the mint transaction is
\* built, each token whose allowance was read below its amount has exactly
\* one approval, and every approval of the operation precedes the mint
\* transaction, was submitted and had its receipt observed.
C21_ApprovalsPerTokenBeforeMint ==
    \A p \in Procs : AddingLiquidity(p) =>
        /\ \A i \in {1, 2} :
              /\ Cardinality(ApprovalsOf(p, i)) <= 1
              /\ \A a \in ApprovalsOf(p, i) :
                    /\ loc[p].allow[i] # Unread
                    /\ BigLess(loc[p].allow[i], op[p].amt[i])
                    /\ txs[p][a].amt[1] = InfiniteAllowance
        /\ \A m \in OpTxsOfKind(p, "mint") :
              /\ \A i \in {1, 2} :
                    /\ loc[p].allow[i] # Unread
                    /\ BigLess(loc[p].allow[i], op[p].amt[i])
                          <=> ApprovalsOf(p, i) # {}
              /\ \A a \in OpTxsOfKind(p, "approve") :
                    /\ a < m
                    /\ txs[p][a].sends >= 1
                    /\ txs[p][a].st = "mined"
                    /\ txs[p][a].seen

\* add_liquidity approved the second token only (the first token's allowance
\* was enough) and built the mint transaction after the approval's receipt
C21_Witness ==
    \E p \in Procs :
        /\ AddingLiquidity(p)
        /\ ApprovalsOf(p, 1) = {}
        /\ ~BigLess(loc[p].allow[1], op[p].amt[1])
        /\ \E a \in ApprovalsOf(p, 2) : txs[p][a].seen
        /\ OpTxsOfKind(p, "mint") # {}

(* ----------------------- add_liquidity token id ----------------------- *)
MintReceiptRead(p) == AddingLiquidity(p) /\ loc[p].logs # <<>>

\* the log is one of the position manager (in any letter case) that carries
\* the liquidity-increase signature and a token id topic
IsIncreaseLog(log) ==
    /\ Lower(log.address) = <<"0", "x", "e", "e", "5", "f">>
    /\ Len(log.topics) >= 2
    /\ log.topics[1] = "IncreaseLiquidity"

\* C22: once add_liquidity has fetched the mint receipt it returns a success
\* result with the mint transaction hash, whatever the logs are; token_id is
\* null when no log of the position manager carries the liquidity-increase
\* signature with a token id (logs of other contracts and logs whose decoding
\* fails are skipped), and otherwise the id of the first such log.
C22_TokenIdExtractionNeverFails ==
    \A p \in Procs : MintReceiptRead(p) =>
        LET logs == loc[p].logs[1]
            hits == {j \in 1..Len(logs) : IsIncreaseLog(logs[j])}
        IN  /\ pc[p] = "done"
            /\ result[p].status = "success"
            /\ result[p].hashes = OpTxsOfKind(p, "mint")
            /\ Cardinality(OpTxsOfKind(p, "mint")) = 1
            /\ hits = {} => loc[p].tokenId = <<>>
            /\ hits # {} =>
                  \E j \in hits :
                     /\ \A i \in hits : j <= i
                     /\ loc[p].tokenId = <<logs[j].topics[2]>>

\* the mint succeeded on the chain, its receipt carries only a log of
\* another contract with the signature, and add_liquidity returned success
\* without a token id
C22_Witness ==
    \E p \in Procs :
        /\ MintReceiptRead(p)
        /\ Len(loc[p].logs[1]) = 1
        /\ loc[p].logs[1][1].address # NftManagerAddress
        /\ loc[p].logs[1][1].topics[1] = EventSignature
        /\ \E k \in OpTxsOfKind(p, "mint") : txs[p][k].status = 1
        /\ result[p].status = "success"
        /\ loc[p].tokenId = <<>>

(* ------------------------------ ABI store ----------------------------- *)
Calls == 1..Len(abis.calls)
ByName(c) == c.name # <<>>
ByAddress(c) == c.fn = "_get_contract" /\ c.name = <<>> /\ connected

\* C23: when _get_contract is called twice with the same address and the same
\* ABI name and the first call loaded the ABI, the second call returns the
\* same ABI, reads no file and fetches nothing: the ABI file is read once.
C23_SecondCallIsCacheHit ==
    \A i, j \in Calls :
        LET a == abis.calls[i]
            b == abis.calls[j]
        IN  /\ i < j
            /\ a.fn = "_get_contract" /\ b.fn = "_get_contract"
            /\ ByName(a)
            /\ a.address = b.address /\ a.name = b.name
            /\ a.abi # NoAbi
            => /\ b.abi = a.abi
               /\ b.reads = <<>>
               /\ ~b.fetched
               /\ Cardinality({k \in 1..j : abis.calls[k].name = a.name
                                   /\ abis.calls[k].reads # <<>>}) = 1

\* the erc20 ABI was read from its file by the first of two equal calls and
\* the second call read nothing
C23_Witness ==
    /\ Len(abis.calls) >= 2
    /\ abis.calls[1].fn = "_get_contract"
    /\ abis.calls[1].name = Erc20
    /\ abis.calls[1].reads = <<Erc20>>
    /\ abis.calls[2] = [abis.calls[1] EXCEPT !.reads = <<>>]

\* the ABI name a call resolves to: the name given, the name the table maps
\* the address to, or the address
ResolvedName(c) ==
    IF ByName(c) THEN c.name
    ELSE IF InDict(c.mapping, c.address) THEN DictGet(c.mapping, c.address)
    ELSE c.address

\* C24: after a call has obtained an ABI, every later call that resolves to
\* the same ABI name reads no file and fetches nothing from the explorer.
C24_CacheKeyedByResolvedName ==
    \A i, j \in Calls :
        LET a == abis.calls[i]
            b == abis.calls[j]
        IN  /\ i < j
            /\ connected
            /\ a.abi # NoAbi
            /\ ResolvedName(a) = ResolvedName(b)
            => b.reads = <<>> /\ ~b.fetched

\* C25: a call of _get_contract without an ABI name takes the ABI from the
\* file keyed by the address when that file is good, consults the file the
\* table names only then, the explorer only when both files failed, and
\* returns None only when the explorer was asked and failed too.
C25_ResolutionOrder ==
    \A i \in Calls :
        LET c == abis.calls[i]
            addressFile == FileState(c.address) = "valid"
            mappedFile ==
                /\ InDict(c.mapping, c.address)
                /\ FileState(DictGet(c.mapping, c.address)) = "valid"
        IN  ByAddress(c) =>
              /\ addressFile => c.abi = FileAbi(c.address)
              /\ c.fetched => ~addressFile /\ ~mappedFile
              /\ c.abi = NoAbi => ~addressFile /\ ~mappedFile /\ c.fetched

\* C26: the table treats addresses that differ in letter case only as one
\* address: a call of _get_contract without an ABI name for an address whose
\* lowercase form is that of a table entry gets the ABI the entry names, and
\* add_token_to_abi_mapping never adds a second entry for such an address.
C26_AddressCaseInsensitive ==
    /\ \A i \in Calls :
          LET c == abis.calls[i] IN
          ByAddress(c) =>
             \A e \in c.mapping :
                /\ Lower(e.address) = Lower(c.address)
                /\ FileState(e.name) = "valid"
                => c.abi = FileAbi(e.name)
    /\ \A e1, e2 \in abis.mapping :
          Lower(e1.address) = Lower(e2.address) => e1 = e2

(* ----------------------- the status discriminator --------------------- *)
\* C27: the dictionary every public operation returns, on success and on
\* failure, has a "status" key whose value is "success", "error" or
\* "partial"; get_pool_details_by_address and get_transaction_status
\* included.
C27_StatusIsSuccessErrorOrPartial ==
    \A p \in Procs :
        pc[p] = "done" => result[p].status \in {"success", "error", "partial"}

(* ------------------------- token metadata reads ----------------------- *)
\* C28: a failing read of token metadata does not abort the operation that
\* makes it: when get_detailed_pool_data has read its pool and the calls on
\* the tokens are made, it returns its success dictionary, with 18 for the
\* decimals of a token whose decimals() call raises and "Unknown" for the
\* symbol of a token whose symbol() call raises.
C28_MetadataReadsDegrade ==
    \A p \in Procs :
        /\ pc[p] = "done"
        /\ op[p].kind = "get_detailed_pool_data"
        /\ loc[p].reads # <<>>
        => /\ result[p].status = "success"
           /\ \A i \in {1, 2} :
                 /\ loc[p].reads[i].decimals = <<>> => loc[p].decimals[i] = 18
                 /\ loc[p].reads[i].symbol = <<>> => loc[p].symbols[i] = "Unknown"

(* ----------------------------- pool prices ---------------------------- *)
\* the operation of p returned a dictionary with a decimals-adjusted price
PriceReported(p) ==
    /\ pc[p] = "done"
    /\ op[p].kind \in {"get_detailed_pool_data", "get_pool_details_by_address"}
    /\ loc[p].price # <<>>

\* the pool state and the token decimals the operation of p read
PoolStateRead(p) == <<loc[p].sqrtPriceX96[1], loc[p].decimals[1], loc[p].decimals[2]>>

\* x and y differ by at most y / 2^40: the same number up to the rounding
\* of float and Decimal arithmetic
SameUpToRounding(x, y) ==
    LET lo == IF x.e < y.e THEN x.e ELSE y.e
        a == BigProduct(BigPow2(x.e - lo), x.m)
        b == BigProduct(BigPow2(y.e - lo), y.m)
        diff == IF BigLess(a, b) THEN BigSub(b, a) ELSE BigSub(a, b)
    IN  ~BigLess(b, BigProduct(BigPow2(40), diff))

\* C29: get_detailed_pool_data and get_pool_details_by_address report the
\* same price for the same sqrtPriceX96 and token decimals, equal decimals
\* or not: the price either of them reports is, up to rounding, the price
\* the computation of the other gives for the pool state it read.
C29_SamePriceFromBothOperations ==
    \A p \in Procs : PriceReported(p) =>
        /\ SameUpToRounding(loc[p].price[1], DetailedPrices[PoolStateRead(p)])
        /\ SameUpToRounding(loc[p].price[1], ByAddressPrices[PoolStateRead(p)])

\* 79228162514264337593543950336
TwoTo96 == <<336, 4395, 5935, 4337, 1426, 1625, 9228, 7>>

\* the operation of p returned a dictionary with a price
AnyPriceReported(p) == pc[p] = "done" /\ loc[p].price # <<>>

\* C30: every price reported for sqrtPriceX96 = 2^96 and equal token
\* decimals (get_pool_info adjusts for none) is the float 1.0 exactly, and
\* every initialize transaction built for the initial price 1.0, the one
\* add_liquidity uses and the default of create_pool, carries
\* sqrtPriceX96 = 2^96 exactly.
C30_UnitPriceRoundTrip ==
    \A p \in Procs :
        /\ /\ AnyPriceReported(p)
           /\ loc[p].sqrtPriceX96 = <<TwoTo96>>
           /\ loc[p].decimals # <<>> => loc[p].decimals[1] = loc[p].decimals[2]
           => loc[p].price[1].m = BigPow2(-loc[p].price[1].e)
        /\ /\ op[p].kind \in {"add_liquidity", "create_pool"}
           /\ op[p].initialPrice = [m |-> <<1>>, e |-> 0]
           => \A k \in OpTxsOfKind(p, "initialize") : txs[p][k].amt[1] = TwoTo96

\* get_pool_details_by_address read a pool at sqrtPriceX96 = 2^96 whose
\* tokens both have 6 decimals and reported the price 1.0
C30_Witness ==
    \E p \in Procs :
        /\ pc[p] = "done"
        /\ op[p].kind = "get_pool_details_by_address"
        /\ loc[p].sqrtPriceX96 = <<TwoTo96>>
        /\ loc[p].decimals = <<6, 6>>
        /\ loc[p].price # <<>>
        /\ loc[p].price[1].m = BigPow2(-loc[p].price[1].e)

\* create_pool of p initialised the pool at sqrtPriceX96 = s
InitializedAt(p, s) ==
    /\ op[p].kind = "create_pool"
    /\ \E k \in OpTxsOfKind(p, "initialize") :
          /\ txs[p][k].amt[1] = s
          /\ txs[p][k].st = "mined"
          /\ txs[p][k].status = 1

\* C31: the price calculate_price_from_sqrt_price_x96 reports, with equal
\* token decimals, for a pool that create_pool initialised at a price
\* between 1e-12 and 1e12 is that initial price up to a relative error of
\* 2^-40.
C31_PriceRoundTrip ==
    \A p, q \in Procs :
        /\ PriceReported(q)
        /\ op[q].kind = "get_pool_details_by_address"
        /\ loc[q].decimals[1] = loc[q].decimals[2]
        /\ InitializedAt(p, loc[q].sqrtPriceX96[1])
        => SameUpToRounding(loc[q].price[1], op[p].initialPrice)

\* the pool was created at the price 3.0, whose root is no float, and read
\* back with a price other than 3.0
C31_Witness ==
    \E p, q \in Procs :
        /\ PriceReported(q)
        /\ op[q].kind = "get_pool_details_by_address"
        /\ InitializedAt(p, loc[q].sqrtPriceX96[1])
        /\ op[p].initialPrice = [m |-> <<3>>, e |-> 0]
        /\ ~DoubleEq(loc[q].price[1], op[p].initialPrice)

\* C32: the PoA middleware is never registered twice; once a call has passed
\* its registration statements it is registered exactly once; and a call that
\* began when it was registered neither fails on the middleware nor returns
\* False.
PastRegistration(p) ==
    pc[p] \in {"sign", "send_raw", "done"} /\ op[p].kind # "send_transaction"

C32_PoaRegisteredOnce ==
    /\ onion <= 1
    /\ \A p \in Procs :
        /\ PastRegistration(p) => onion = 1
        /\ (pc[p] = "done" /\ loc[p].registered = 1) =>
              /\ result[p].error # DuplicateError
              /\ result[p].status # "False"

\* two calls that both skipped the registration, after a call that made it
C32_Witness ==
    /\ onion = 1
    /\ \A p \in Procs :
        /\ pc[p] = "done" /\ loc[p].registered = 1
        /\ op[p].kind \in SubmissionPaths \ {"send_transaction"}
    /\ \E p \in Procs : op[p].kind = "_ensure_poa_middleware"
                        /\ result[p].status = "True"
    /\ \E p \in Procs : op[p].kind = "swap_tokens"
                        /\ result[p].status = "success"

\* C33: on every submission path the bytes sent are those of an attribute
\* the signing result has, a result with either attribute is sent, and when
\* it has both the newer name, raw_transaction, is the one sent.
C33_NewerRawFieldUsed ==
    \A p \in Procs :
        pc[p] = "done" /\ op[p].kind # "_ensure_poa_middleware"
                       /\ result[p].error # DuplicateError =>
            /\ loc[p].signed # {} => loc[p].sent # <<>>
            /\ loc[p].sent # <<>> => loc[p].sent[1] \in loc[p].signed
            /\ "raw_transaction" \in loc[p].signed =>
                  loc[p].sent = <<"raw_transaction">>

\* C34: of the calls of add_token_to_abi_mapping for one address that is not
\* in the table, exactly one returns True, and the table holds the ABI name
\* of a caller that was told True.
AddedBy(p) == pc[p] = "done" /\ result[p].status = "True"

C34_OneCallAddsTheToken ==
    \A p \in Procs :
        AddedBy(p) =>
            /\ DictGet(abis.mapping, loc[p].mapped[1]) = loc[p].mapped[2]
            /\ \A q \in Procs \ {p} :
                  AddedBy(q) => loc[q].mapped[1] # loc[p].mapped[1]

\* C35: a swap transaction carries the amountIn and the fee of the quote, the
\* fee is 3000, and the operation approved exactly when the allowance it read
\* was below that amountIn.
C35_OneAmountOneFee ==
    \A p \in Procs :
        op[p].kind = "swap" =>
            \A k \in OpTxsOfKind(p, "swap") :
                /\ loc[p].swapParams = loc[p].quoteParams
                /\ loc[p].swapParams[1] = 3000
                /\ txs[p][k].amt[1] = loc[p].swapParams[2]
                /\ loc[p].allow[1] # Unread
                /\ OpTxsOfKind(p, "approve") # {} <=>
                      BigLess(loc[p].allow[1], txs[p][k].amt[1])

\* a swap that approved and a swap that did not, of an amount whose
\* base-unit value is not the number the caller passed
C35_Witness ==
    \E p \in Procs :
        /\ op[p].kind = "swap" /\ result[p].status = "success"
        /\ OpTxsOfKind(p, "approve") # {}
        /\ \E k \in OpTxsOfKind(p, "swap") :
              /\ txs[p][k].st = "mined"
              /\ txs[p][k].amt[1] # AmountInWei(op[p].amount[1], 0)

\* C36: add_liquidity builds its mint transaction only when every approval
\* it sent was mined with success status.
C36_MintOnlyAfterSuccessfulApprovals ==
    \A p \in Procs : AddingLiquidity(p) =>
        (OpTxsOfKind(p, "mint") # {} =>
            \A a \in OpTxsOfKind(p, "approve") :
                txs[p][a].st = "mined" /\ txs[p][a].status = 1)

\* C37: in an add_liquidity that built its mint transaction, a bound the
\* caller supplied is the bound of the mint, a bound the caller left out is
\* the greatest multiple of the tick spacing at most 10 spacings below (above)
\* the current tick, and when both were left out the bounds are 20 spacings
\* apart with the current tick strictly between them.
MintBuilt(p) == AddingLiquidity(p) /\ OpTxsOfKind(p, "mint") # {}

C37_TickWindowAndSuppliedBounds ==
    \A p \in Procs : MintBuilt(p) =>
        LET lower == loc[p].ticks[1]
            upper == loc[p].ticks[2]
            s == slot0.spacing
            c == slot0.tick
        IN /\ op[p].ticks[1] # <<>> => lower = op[p].ticks[1][1]
           /\ op[p].ticks[2] # <<>> => upper = op[p].ticks[2][1]
           /\ op[p].ticks[1] = <<>> =>
                 /\ s > 0 /\ lower % s = 0
                 /\ lower <= c - 10 * s /\ c - 10 * s < lower + s
           /\ op[p].ticks[2] = <<>> =>
                 /\ s > 0 /\ upper % s = 0
                 /\ upper <= c + 10 * s /\ c + 10 * s < upper + s
           /\ op[p].ticks = NoTicks =>
                 /\ upper - lower = 20 * s
                 /\ lower < c /\ c < upper

\* the caller supplied the lower bound -5 only, the current tick is -25 and
\* the spacing 7: the mint has the bounds -5 and 42
C37_Witness ==
    \E p \in Procs :
        /\ MintBuilt(p)
        /\ op[p].ticks = <<<<-5>>, <<>>>>
        /\ slot0 = [tick |-> -25, spacing |-> 7]
        /\ loc[p].ticks = <<-5, 42>>
        /\ \E m \in OpTxsOfKind(p, "mint") : txs[p][m].st = "mined"

\* C38: connected goes from False to True only in a step that makes a new
\* connection object (which runs connect()); asking for the status or
\* running an operation never makes one; and an operation called while
\* connected is False returns an error and builds no transaction.
C38_NeverReconnectsByItself ==
    [][/\ (~connected /\ connected') => connects' = connects + 1
       /\ connects' # connects => pc' = pc
       /\ \A p \in Procs : ~connected /\ Called(p) =>
             /\ pc'[p] = "done"
             /\ result'[p].status = "error"
             /\ txs'[p] = <<>>]_vars

\* the connection was initialized a second time and failed again: a swap
\* called after it is refused
C38_Witness ==
    \E p \in Procs :
        /\ ~connected /\ connects = 2
        /\ op[p].kind = "swap" /\ pc[p] = "done"
        /\ result[p].error = "Failed to connect to Ethereum node"

====
